---- MODULE Spec2Model ----
(***************************************************************************)
(* Normalization & Deduplication Engine of calendar-goggles                *)
(* (src/lib/normalize.py), with the scrape and seed scripts that store     *)
(* its output (src/scrape.py, src/seed.py, src/lib/db.py), and the rate    *)
(* limiter of the API server (src/server.py).                              *)
(*                                                                         *)
(* A Python str is a sequence of one-character strings; a Python value is  *)
(* a tagged record (None, str, int, float), so that `is None` and truthiness are  *)
(* what the code tests.  A dict is a function whose DOMAIN is its key set. *)
(***************************************************************************)
EXTENDS Integers, Sequences, FiniteSets, TLC

VARIABLES
    releases,      \* deduplicate_releases: the argument (list of dicts)
    fuzz,          \* the thefuzz capability: importable or not, and its scorer
    pc,            \* position inside deduplicate_releases
    n,             \* phase 1: index of the record the for loop is at
    seen_ids,      \* phase 1: the insertion-ordered dict id -> accumulator
    deduped,       \* list(seen_ids.values())
    i, j,          \* phase 2 loop indices (1-based here, 0-based in the code)
    merged,        \* phase 2: dict(r1), the survivor being filled
    skip_indices,  \* phase 2: indices consumed by an earlier survivor
    final,         \* phase 2: output list under construction
    result,        \* the returned list
    grp1,          \* history: input indices folded into each seen_ids entry
    mgrp,          \* history: deduped indices folded into merged
    fgrp,          \* history: deduped indices folded into each output record
    compared,      \* history: the pairs <<i, j>> whose score was taken
    raws,          \* normalize_release: the raw records handed in
    outs,          \* normalize_release: what it returned for each
    npc,           \* position of the normalization run
    fn,            \* a field parser called on its own: which one
    toks,          \* the pieces of text its argument is made of
    arg,           \* the argument of the call
    year_arg,      \* normalize_month: the target year of the call
    ret,           \* what the call returned, Raise if it raised
    ppc,           \* position of the parser call
    script,        \* which program runs: scrape.py (main) or seed.py (seed)
    dry_run,       \* args.dry_run
    conn,          \* the database connection: "none", "open" or "closed"
    todo,          \* scrapers_to_run, what the for loop has not reached yet
    scraped,       \* history: the raw records the scrapers returned, or seed read
    all_raw_releases,  \* main: the entries of the records kept
    results,       \* main: status by scraper name
    normalized_list,   \* main: the list handed to deduplicate_releases
    deduplicated,  \* main: the list it returned
    stored,        \* main: how many of deduplicated the store loop has done
    upserted,      \* history: the arguments of the upsert_release calls
    tbl_releases,  \* table releases: id -> row
    tbl_sources,   \* table release_sources: set of rows
    tbl_logs,      \* table scrape_logs: list of rows
    commits,       \* history: number of conn.commit() calls
    spc,           \* position of the program
    now,           \* server.py: the value time.time() returns
    rate_store,    \* _rate_store: ip -> list of the times of admitted requests
    client_ip,     \* do_GET: the client of the last request
    response,      \* do_GET: the answer to the last request
    admitted,      \* history: ip -> times of all the requests admitted
    sent           \* history: ip -> number of requests made

dvars == <<releases, fuzz, pc, n, seen_ids, deduped, i, j, merged,
           skip_indices, final, result, grp1, mgrp, fgrp, compared>>
nvars == <<raws, outs, npc>>
pvars == <<fn, toks, arg, year_arg, ret, ppc>>
svars == <<script, dry_run, conn, todo, scraped, all_raw_releases, results,
           normalized_list, deduplicated, stored, upserted, tbl_releases,
           tbl_sources, tbl_logs, commits, spc>>
rvars == <<now, rate_store, client_ip, response, admitted, sent>>
ovars == <<pvars, svars, rvars>>
vars == <<dvars, nvars, ovars>>

-----------------------------------------------------------------------------
(* Python values                                                           *)

None == [tag |-> "None"]
StrV(s) == [tag |-> "str", v |-> s]
IntV(k) == [tag |-> "int", v |-> k]

IsNone(x) == x.tag = "None"

\* bool(x): None, '' and 0 are falsy
Truthy(x) ==
    CASE x.tag = "None" -> FALSE
      [] x.tag = "str" -> Len(x.v) > 0
      [] x.tag = "int" -> x.v # 0
      [] x.tag = "float" -> x.v # 0
      [] OTHER -> TRUE

\* a or b
Or(a, b) == IF Truthy(a) THEN a ELSE b

\* d.get(k) and d.get(k, default)
Get(d, k) == IF k \in DOMAIN d THEN d[k] ELSE None
GetDefault(d, k, default) == IF k \in DOMAIN d THEN d[k] ELSE default

-----------------------------------------------------------------------------
(* str methods                                                             *)

UpperLetters == <<"A","B","C","D","E","F","G","H","I","J","K","L","M",
                  "N","O","P","Q","R","S","T","U","V","W","X","Y","Z">>
LowerLetters == <<"a","b","c","d","e","f","g","h","i","j","k","l","m",
                  "n","o","p","q","r","s","t","u","v","w","x","y","z">>
DigitChars == <<"0","1","2","3","4","5","6","7","8","9">>

Range(s) == {s[k] : k \in DOMAIN s}
SetMin(S) == CHOOSE x \in S : \A y \in S : x <= y
SetMax(S) == CHOOSE x \in S : \A y \in S : x >= y

Digits == Range(DigitChars)
Uppers == Range(UpperLetters)

IsDigit(c) == c \in Digits
IsSpace(c) == c \in {" ", "\t", "\n", "\r"}

\* the lowercase of each uppercase letter
LowerOf ==
    [c \in Uppers |-> LowerLetters[CHOOSE k \in DOMAIN UpperLetters : UpperLetters[k] = c]]

LowerChar(c) == IF c \in Uppers THEN LowerOf[c] ELSE c

\* s.lower()
lower(s) == [k \in 1..Len(s) |-> LowerChar(s[k])]

\* s.strip()
strip(s) ==
    LET keep == {k \in 1..Len(s) : ~IsSpace(s[k])}
    IN IF keep = {} THEN <<>> ELSE SubSeq(s, SetMin(keep), SetMax(keep))

\* str(k) of a non-negative int
RECURSIVE str_int(_)
str_int(k) ==
    IF k < 10 THEN <<DigitChars[k + 1]>>
    ELSE str_int(k \div 10) \o <<DigitChars[(k % 10) + 1]>>

\* format(x) inside an f-string
format(x) ==
    CASE x.tag = "str" -> x.v
      [] x.tag = "int" -> str_int(x.v)
      [] OTHER -> <<"N","o","n","e">>

-----------------------------------------------------------------------------
(* Regular-expression pieces shared by the parsers                         *)

SS(s, a, b) == IF a > b THEN <<>> ELSE SubSeq(s, a, b)

\* the literal lit (lowercase) occurs at position p of s, ignoring case
LitAt(s, p, lit) ==
    /\ p >= 1
    /\ p + Len(lit) - 1 <= Len(s)
    /\ lower(SubSeq(s, p, p + Len(lit) - 1)) = lit

\* re.search(lit, s, re.I) is not None;  lit in s  once s is lowercased
Contains(s, lit) == \E p \in 1..(Len(s) + 1) : LitAt(s, p, lit)

\* last index of the maximal run of characters of class C that starts at p
\* (p - 1 when s[p] is not in C)
RECURSIVE RunEnd(_, _, _)
RunEnd(s, p, C) ==
    IF p <= Len(s) /\ s[p] \in C THEN RunEnd(s, p + 1, C) ELSE p - 1

NumDot == Digits \cup {"."}
Spaces == {" ", "\t", "\n", "\r"}
\* [-\u2013]: the en dash is written "ndash"
Dashes == {"-", "ndash"}

DigitVal(c) == (CHOOSE k \in DOMAIN DigitChars : DigitChars[k] = c) - 1

\* int(t) for a run of digits
RECURSIVE int(_)
int(t) ==
    IF t = <<>> THEN 0
    ELSE 10 * int(SubSeq(t, 1, Len(t) - 1)) + DigitVal(t[Len(t)])

-----------------------------------------------------------------------------
(* float: a decimal number is kept exactly, in thousandths                 *)

Raise == [tag |-> "raise"]
FloatV(m) == [tag |-> "float", v |-> m]

\* float(t) accepts a run of [\d.] iff it has a digit and at most one '.'
FloatOk(t) ==
    /\ \E k \in DOMAIN t : IsDigit(t[k])
    /\ Cardinality({k \in DOMAIN t : t[k] = "."}) <= 1

\* float(t) in thousandths (digits beyond the third decimal are dropped)
float(t) ==
    LET dots == {k \in DOMAIN t : t[k] = "."}
        d == IF dots = {} THEN Len(t) + 1 ELSE SetMin(dots)
        ip == SS(t, 1, d - 1)
        fp == SS(SS(t, d + 1, Len(t)) \o <<"0","0","0">>, 1, 3)
    IN int(ip) * 1000 + int(fp)

\* round(y / 2000, 1) in thousandths, y counted in 1/2000.  A tie that binary
\* floating point holds exactly (x.25, x.75) goes to the even tenth; any other
\* tie is decided by the representation error of the double, which the
\* decimal value does not determine: both neighbours are possible.
round1(y) ==
    LET r == y % 200
        lo == (y - r) \div 2
        hi == lo + 100
    IN IF r < 100 THEN {lo}
       ELSE IF r > 100 THEN {hi}
       ELSE IF y % 1000 = 500
            THEN {IF (lo \div 100) % 2 = 0 THEN lo ELSE hi}
            ELSE {lo, hi}

\* str(raw) for the raw scalars of the model
str(x) == format(x)

\* first maximal run of [\d.] of s, <<>> if none
FirstNumber(s) ==
    LET P == {p \in 1..Len(s) : s[p] \in NumDot}
    IN IF P = {} THEN <<>> ELSE SubSeq(s, SetMin(P), RunEnd(s, SetMin(P), NumDot))

-----------------------------------------------------------------------------
(* parse_proof: the set of results the call can have, each                  *)
(* [proof, abv] or Raise                                                    *)

\* ([\d.]+)\s*proof matches with its group starting at p
ProofAt(s, p) ==
    /\ s[p] \in NumDot
    /\ LitAt(s, RunEnd(s, RunEnd(s, p, NumDot) + 1, Spaces) + 1,
             <<"p","r","o","o","f">>)

\* val > 100 is a proof, anything else an ABV (lines 33-36 and 41-44)
ProofOrAbv(val) ==
    IF val > 100 * 1000
    THEN {[proof |-> FloatV(val), abv |-> FloatV(a)] : a \in round1(val)}
    ELSE {[proof |-> FloatV(p), abv |-> FloatV(val)] : p \in round1(val * 4)}

parse_proof(raw) ==
    IF ~Truthy(raw) THEN {[proof |-> None, abv |-> None]}
    ELSE
    LET s == strip(str(raw))
        P == {p \in 1..Len(s) : ProofAt(s, p)}
        g == IF P = {} THEN <<>>
             ELSE SubSeq(s, SetMin(P), RunEnd(s, SetMin(P), NumDot))
        h == FirstNumber(s)
    IN IF P # {}
       THEN IF ~FloatOk(g) THEN {Raise}
            ELSE {[proof |-> FloatV(float(g)), abv |-> FloatV(a)] :
                      a \in round1(float(g))}
       ELSE IF h # <<>>
       \* ([\d.]+)\s*%?\s*(?:abv)? matches wherever a digit or '.' stands, so
       \* the bare-number pattern after it is never reached
       THEN IF ~FloatOk(h) THEN {Raise} ELSE ProofOrAbv(float(h))
       ELSE {[proof |-> None, abv |-> None]}

-----------------------------------------------------------------------------
(* parse_age                                                               *)

\* (?:years?|yr|yrs) matches at p
YearUnitAt(s, p) ==
    LitAt(s, p, <<"y","e","a","r">>) \/ LitAt(s, p, <<"y","r">>)

\* (?:years?|yr|yrs|year-old|yo) matches at p
AgeUnitAt(s, p) == YearUnitAt(s, p) \/ LitAt(s, p, <<"y","o">>)

\* position after  \s*  from p
SkipSpaces(s, p) == RunEnd(s, p, Spaces) + 1

\* (\d+)\s*[-\u2013]\s*(\d+)\s*(?:years?|yr|yrs) matches from p; the start of group 2
RangeGroup2(s, p) == SkipSpaces(s, SkipSpaces(s, RunEnd(s, p, Digits) + 1) + 1)
RangeAt(s, p) ==
    LET d == SkipSpaces(s, RunEnd(s, p, Digits) + 1)
        q == RangeGroup2(s, p)
    IN /\ IsDigit(s[p])
       /\ d <= Len(s) /\ s[d] \in Dashes
       /\ q <= Len(s) /\ IsDigit(s[q])
       /\ YearUnitAt(s, SkipSpaces(s, RunEnd(s, q, Digits) + 1))

\* (\d+)\s*[-\u2013]?\s*(?:years?|yr|yrs|year-old|yo) matches from p
SimpleAt(s, p) ==
    LET a == SkipSpaces(s, RunEnd(s, p, Digits) + 1)
        b == IF a <= Len(s) /\ s[a] \in Dashes THEN SkipSpaces(s, a + 1) ELSE a
    IN /\ IsDigit(s[p])
       /\ (AgeUnitAt(s, b) \/ AgeUnitAt(s, a))

parse_age(raw) ==
    IF ~Truthy(raw) THEN None
    ELSE
    LET s == strip(str(raw))
        R == {p \in 1..Len(s) : RangeAt(s, p)}
        S == {p \in 1..Len(s) : SimpleAt(s, p)}
    IN IF R # {}
       THEN LET q == RangeGroup2(s, SetMin(R))
            IN IntV(int(SubSeq(s, q, RunEnd(s, q, Digits))))
       ELSE IF S # {}
       THEN IntV(int(SubSeq(s, SetMin(S), RunEnd(s, SetMin(S), Digits))))
       ELSE IF s # <<>> /\ \A k \in DOMAIN s : IsDigit(s[k])
       THEN IF 2 <= int(s) /\ int(s) <= 50 THEN IntV(int(s)) ELSE None
       ELSE None

-----------------------------------------------------------------------------
(* parse_price                                                             *)

Placeholders ==
    {<<"t","b","d">>, <<"t","b","a">>, <<"n","/","a">>,
     <<"p","e","n","d","i","n","g">>, <<"u","n","k","n","o","w","n">>}

\* s.replace(',', '')
NoCommas(s) == SelectSeq(s, LAMBDA c : c # ",")

\* \$?\s*([\d,.]+) : whatever it starts on, its group is the first run of
\* digits and dots of the text
parse_price(raw) ==
    IF ~Truthy(raw) THEN None
    ELSE
    LET s == strip(str(raw))
        g == FirstNumber(NoCommas(s))
    IN IF \E t \in Placeholders : Contains(s, t) THEN None
       ELSE IF g = <<>> THEN None
       ELSE IF ~FloatOk(g) THEN Raise
       ELSE FloatV(float(g))

-----------------------------------------------------------------------------
(* classify_type                                                           *)

\* TYPE_MAP, in definition order: <<fragment, tag>>
TYPE_MAP ==
    <<
    <<<<"b","o","u","r","b","o","n">>,
      <<"b","o","u","r","b","o","n">>>>,
    <<<<"k","e","n","t","u","c","k","y"," ","s","t","r","a","i","g","h","t"," ","b","o","u","r","b","o","n">>,
      <<"b","o","u","r","b","o","n">>>>,
    <<<<"s","t","r","a","i","g","h","t"," ","b","o","u","r","b","o","n">>,
      <<"b","o","u","r","b","o","n">>>>,
    <<<<"r","y","e">>,
      <<"r","y","e">>>>,
    <<<<"s","t","r","a","i","g","h","t"," ","r","y","e">>,
      <<"r","y","e">>>>,
    <<<<"r","y","e"," ","w","h","i","s","k","e","y">>,
      <<"r","y","e">>>>,
    <<<<"w","h","e","a","t"," ","w","h","i","s","k","e","y">>,
      <<"w","h","e","a","t">>>>,
    <<<<"w","h","e","a","t","e","d"," ","b","o","u","r","b","o","n">>,
      <<"b","o","u","r","b","o","n">>>>,
    <<<<"t","e","n","n","e","s","s","e","e"," ","w","h","i","s","k","e","y">>,
      <<"t","e","n","n","e","s","s","e","e">>>>,
    <<<<"t","e","n","n","e","s","s","e","e">>,
      <<"t","e","n","n","e","s","s","e","e">>>>,
    <<<<"s","i","n","g","l","e"," ","m","a","l","t">>,
      <<"s","i","n","g","l","e","_","m","a","l","t">>>>,
    <<<<"a","m","e","r","i","c","a","n"," ","s","i","n","g","l","e"," ","m","a","l","t">>,
      <<"s","i","n","g","l","e","_","m","a","l","t">>>>,
    <<<<"s","c","o","t","c","h">>,
      <<"s","c","o","t","c","h">>>>,
    <<<<"j","a","p","a","n","e","s","e"," ","w","h","i","s","k","y">>,
      <<"j","a","p","a","n","e","s","e">>>>,
    <<<<"b","l","e","n","d","e","d">>,
      <<"b","l","e","n","d">>>>,
    <<<<"b","l","e","n","d">>,
      <<"b","l","e","n","d">>>>
    >>

bourbon == StrV(<<"b","o","u","r","b","o","n">>)

classify_typeLongest(raw) ==
    IF ~Truthy(raw) THEN bourbon
    ELSE
    LET s == strip(lower(str(raw)))
        H == {k \in DOMAIN TYPE_MAP : Contains(s, TYPE_MAP[k][1])}
        L == {k \in H : \A h \in H : Len(TYPE_MAP[h][1]) <= Len(TYPE_MAP[k][1])}
    IN IF H # {} THEN StrV(TYPE_MAP[SetMin(L)][2])
       ELSE IF Contains(s, <<"r","y","e">>) THEN StrV(<<"r","y","e">>)
       ELSE IF Contains(s, <<"w","h","e","a","t">>) THEN StrV(<<"w","h","e","a","t">>)
       ELSE IF \/ Contains(s, <<"s","c","o","t","c","h">>)
               \/ Contains(s, <<"h","i","g","h","l","a","n","d">>)
               \/ Contains(s, <<"s","p","e","y","s","i","d","e">>)
               \/ Contains(s, <<"i","s","l","a","y">>)
            THEN StrV(<<"s","c","o","t","c","h">>)
       ELSE bourbon

classify_typeNoDefault(raw) ==
    IF ~Truthy(raw) THEN bourbon
    ELSE
    LET s == strip(lower(str(raw)))
        H == {k \in DOMAIN TYPE_MAP : Contains(s, TYPE_MAP[k][1])}
    IN IF H # {} THEN StrV(TYPE_MAP[SetMin(H)][2])
       ELSE IF Contains(s, <<"r","y","e">>) THEN StrV(<<"r","y","e">>)
       ELSE IF Contains(s, <<"w","h","e","a","t">>) THEN StrV(<<"w","h","e","a","t">>)
       ELSE None

classify_type(raw) ==
    IF ~Truthy(raw) THEN bourbon
    ELSE
    LET s == strip(lower(str(raw)))
        H == {k \in DOMAIN TYPE_MAP : Contains(s, TYPE_MAP[k][1])}
    IN IF H # {} THEN StrV(TYPE_MAP[SetMin(H)][2])
       ELSE IF Contains(s, <<"r","y","e">>) THEN StrV(<<"r","y","e">>)
       ELSE IF Contains(s, <<"w","h","e","a","t">>) THEN StrV(<<"w","h","e","a","t">>)
       ELSE IF \/ Contains(s, <<"s","c","o","t","c","h">>)
               \/ Contains(s, <<"h","i","g","h","l","a","n","d">>)
               \/ Contains(s, <<"s","p","e","y","s","i","d","e">>)
               \/ Contains(s, <<"i","s","l","a","y">>)
            THEN StrV(<<"s","c","o","t","c","h">>)
       ELSE bourbon

-----------------------------------------------------------------------------
(* normalize_month                                                         *)

MONTHS ==
    <<<<"J","a","n","u","a","r","y">>,
      <<"F","e","b","r","u","a","r","y">>,
      <<"M","a","r","c","h">>,
      <<"A","p","r","i","l">>,
      <<"M","a","y">>,
      <<"J","u","n","e">>,
      <<"J","u","l","y">>,
      <<"A","u","g","u","s","t">>,
      <<"S","e","p","t","e","m","b","e","r">>,
      <<"O","c","t","o","b","e","r">>,
      <<"N","o","v","e","m","b","e","r">>,
      <<"D","e","c","e","m","b","e","r">>>>

\* f"{m} {year}"
MonthLabel(k, year) == StrV(MONTHS[k] \o <<" ">> \o str_int(year))

\* re.search(rf'{m}\s*{year}', s, re.I)
MonthYearIn(s, k, year) ==
    \E p \in 1..Len(s) :
        /\ LitAt(s, p, lower(MONTHS[k]))
        /\ LitAt(s, SkipSpaces(s, p + Len(MONTHS[k])), str_int(year))

\* (\d{1,2})\s*[/\-]\s*(\d{2,4}) matches from p; the length of group 1
NumericG1(s, p) == IF p + 1 <= Len(s) /\ IsDigit(s[p + 1]) THEN 2 ELSE 1
NumericAt(s, p) ==
    LET a == SkipSpaces(s, p + NumericG1(s, p))
        b == SkipSpaces(s, a + 1)
    IN /\ IsDigit(s[p])
       /\ a <= Len(s) /\ s[a] \in {"/", "-"}
       /\ b + 1 <= Len(s) /\ IsDigit(s[b]) /\ IsDigit(s[b + 1])

\* q(\d) matches at p, ignoring case
QuarterAt(s, p) == LowerChar(s[p]) = "q" /\ p + 1 <= Len(s) /\ IsDigit(s[p + 1])

QuarterMonthWraps(s, year) ==
    LET Q == {p \in 1..Len(s) : QuarterAt(s, p)}
        idx == (DigitVal(s[SetMin(Q) + 1]) - 1) * 3
    IN IF Q # {} /\ idx < 12 THEN MonthLabel(((idx + 12) % 12) + 1, year) ELSE None

\* the quarter rule (lines 159-164), reached when no earlier rule returned
QuarterMonth(s, year) ==
    LET Q == {p \in 1..Len(s) : QuarterAt(s, p)}
        idx == (DigitVal(s[SetMin(Q) + 1]) - 1) * 3
    IN IF Q # {} /\ 0 <= idx /\ idx < 12 THEN MonthLabel(idx + 1, year) ELSE None

normalize_monthStartFirst(raw, year) ==
    IF ~Truthy(raw) THEN None
    ELSE
    LET s == strip(str(raw))
        A == {k \in DOMAIN MONTHS : MonthYearIn(s, k, year)}
        B == {k \in DOMAIN MONTHS : LitAt(s, 1, SubSeq(lower(MONTHS[k]), 1, 3))}
        C == {p \in 1..Len(s) : NumericAt(s, p)}
        idx == int(SubSeq(s, SetMin(C), SetMin(C) + NumericG1(s, SetMin(C)) - 1)) - 1
    IN IF B # {} THEN MonthLabel(SetMin(B), year)
       ELSE IF A # {} THEN MonthLabel(SetMin(A), year)
       ELSE IF C # {} /\ 0 <= idx /\ idx < 12 THEN MonthLabel(idx + 1, year)
       ELSE QuarterMonth(s, year)

normalize_month(raw, year) ==
    IF ~Truthy(raw) THEN None
    ELSE
    LET s == strip(str(raw))
        A == {k \in DOMAIN MONTHS : MonthYearIn(s, k, year)}
        B == {k \in DOMAIN MONTHS : LitAt(s, 1, SubSeq(lower(MONTHS[k]), 1, 3))}
        C == {p \in 1..Len(s) : NumericAt(s, p)}
        idx == int(SubSeq(s, SetMin(C), SetMin(C) + NumericG1(s, SetMin(C)) - 1)) - 1
    IN IF A # {} THEN MonthLabel(SetMin(A), year)
       ELSE IF B # {} THEN MonthLabel(SetMin(B), year)
       ELSE IF C # {} /\ 0 <= idx /\ idx < 12 THEN MonthLabel(idx + 1, year)
       ELSE QuarterMonth(s, year)

-----------------------------------------------------------------------------
(* extract_distillery                                                      *)

\* KNOWN_DISTILLERIES, in definition order: <<fragment, distillery>>
KNOWN_DISTILLERIES ==
    <<
    <<<<"b","u","f","f","a","l","o"," ","t","r","a","c","e">>,
      <<"B","u","f","f","a","l","o"," ","T","r","a","c","e">>>>,
    <<<<"w","i","l","d"," ","t","u","r","k","e","y">>,
      <<"W","i","l","d"," ","T","u","r","k","e","y">>>>,
    <<<<"h","e","a","v","e","n"," ","h","i","l","l">>,
      <<"H","e","a","v","e","n"," ","H","i","l","l">>>>,
    <<<<"j","i","m"," ","b","e","a","m">>,
      <<"J","i","m"," ","B","e","a","m">>>>,
    <<<<"b","e","a","m"," ","s","u","n","t","o","r","y">>,
      <<"J","i","m"," ","B","e","a","m">>>>,
    <<<<"m","a","k","e","r","'","s"," ","m","a","r","k">>,
      <<"M","a","k","e","r","'","s"," ","M","a","r","k">>>>,
    <<<<"m","a","k","e","r","s"," ","m","a","r","k">>,
      <<"M","a","k","e","r","'","s"," ","M","a","r","k">>>>,
    <<<<"w","o","o","d","f","o","r","d"," ","r","e","s","e","r","v","e">>,
      <<"W","o","o","d","f","o","r","d"," ","R","e","s","e","r","v","e">>>>,
    <<<<"f","o","u","r"," ","r","o","s","e","s">>,
      <<"F","o","u","r"," ","R","o","s","e","s">>>>,
    <<<<"k","n","o","b"," ","c","r","e","e","k">>,
      <<"J","i","m"," ","B","e","a","m">>>>,
    <<<<"b","o","o","k","e","r","'","s">>,
      <<"J","i","m"," ","B","e","a","m">>>>,
    <<<<"b","o","o","k","e","r","s">>,
      <<"J","i","m"," ","B","e","a","m">>>>,
    <<<<"b","a","k","e","r","'","s">>,
      <<"J","i","m"," ","B","e","a","m">>>>,
    <<<<"b","a","s","i","l"," ","h","a","y","d","e","n">>,
      <<"J","i","m"," ","B","e","a","m">>>>,
    <<<<"o","l","d"," ","f","o","r","e","s","t","e","r">>,
      <<"B","r","o","w","n","-","F","o","r","m","a","n">>>>,
    <<<<"j","a","c","k"," ","d","a","n","i","e","l","'","s">>,
      <<"J","a","c","k"," ","D","a","n","i","e","l","'","s">>>>,
    <<<<"j","a","c","k"," ","d","a","n","i","e","l">>,
      <<"J","a","c","k"," ","D","a","n","i","e","l","'","s">>>>,
    <<<<"g","e","o","r","g","e"," ","d","i","c","k","e","l">>,
      <<"G","e","o","r","g","e"," ","D","i","c","k","e","l">>>>,
    <<<<"b","a","r","r","e","l","l">>,
      <<"B","a","r","r","e","l","l"," ","C","r","a","f","t"," ","S","p","i","r","i","t","s">>>>,
    <<<<"a","n","g","e","l","'","s"," ","e","n","v","y">>,
      <<"A","n","g","e","l","'","s"," ","E","n","v","y">>>>,
    <<<<"a","n","g","e","l","s"," ","e","n","v","y">>,
      <<"A","n","g","e","l","'","s"," ","E","n","v","y">>>>,
    <<<<"m","i","c","h","t","e","r","'","s">>,
      <<"M","i","c","h","t","e","r","'","s">>>>,
    <<<<"m","i","c","h","t","e","r">>,
      <<"M","i","c","h","t","e","r","'","s">>>>,
    <<<<"e",".","h","."," ","t","a","y","l","o","r">>,
      <<"B","u","f","f","a","l","o"," ","T","r","a","c","e">>>>,
    <<<<"e","a","g","l","e"," ","r","a","r","e">>,
      <<"B","u","f","f","a","l","o"," ","T","r","a","c","e">>>>,
    <<<<"g","e","o","r","g","e"," ","t","."," ","s","t","a","g","g">>,
      <<"B","u","f","f","a","l","o"," ","T","r","a","c","e">>>>,
    <<<<"s","t","a","g","g">>,
      <<"B","u","f","f","a","l","o"," ","T","r","a","c","e">>>>,
    <<<<"b","l","a","n","t","o","n","'","s">>,
      <<"B","u","f","f","a","l","o"," ","T","r","a","c","e">>>>,
    <<<<"b","l","a","n","t","o","n">>,
      <<"B","u","f","f","a","l","o"," ","T","r","a","c","e">>>>,
    <<<<"w","e","l","l","e","r">>,
      <<"B","u","f","f","a","l","o"," ","T","r","a","c","e">>>>,
    <<<<"p","a","p","p","y"," ","v","a","n"," ","w","i","n","k","l","e">>,
      <<"B","u","f","f","a","l","o"," ","T","r","a","c","e">>>>,
    <<<<"v","a","n"," ","w","i","n","k","l","e">>,
      <<"B","u","f","f","a","l","o"," ","T","r","a","c","e">>>>,
    <<<<"s","a","z","e","r","a","c">>,
      <<"B","u","f","f","a","l","o"," ","T","r","a","c","e">>>>,
    <<<<"e","l","i","j","a","h"," ","c","r","a","i","g">>,
      <<"H","e","a","v","e","n"," ","H","i","l","l">>>>,
    <<<<"e","v","a","n"," ","w","i","l","l","i","a","m","s">>,
      <<"H","e","a","v","e","n"," ","H","i","l","l">>>>,
    <<<<"l","a","r","c","e","n","y">>,
      <<"H","e","a","v","e","n"," ","H","i","l","l">>>>,
    <<<<"h","e","n","r","y"," ","m","c","k","e","n","n","a">>,
      <<"H","e","a","v","e","n"," ","H","i","l","l">>>>,
    <<<<"p","a","r","k","e","r","'","s"," ","h","e","r","i","t","a","g","e">>,
      <<"H","e","a","v","e","n"," ","H","i","l","l">>>>,
    <<<<"o","l","d"," ","f","i","t","z","g","e","r","a","l","d">>,
      <<"H","e","a","v","e","n"," ","H","i","l","l">>>>,
    <<<<"r","e","b","e","l">>,
      <<"L","u","x"," ","R","o","w">>>>,
    <<<<"b","l","o","o","d"," ","o","a","t","h">>,
      <<"L","u","x"," ","R","o","w">>>>,
    <<<<"l","i","t","t","l","e"," ","b","o","o","k">>,
      <<"J","i","m"," ","B","e","a","m">>>>,
    <<<<"r","e","d","w","o","o","d"," ","e","m","p","i","r","e">>,
      <<"R","e","d","w","o","o","d"," ","E","m","p","i","r","e">>>>,
    <<<<"b","e","l","l","e"," ","m","e","a","d","e">>,
      <<"N","e","l","s","o","n","'","s"," ","G","r","e","e","n"," ","B","r","i","e","r">>>>,
    <<<<"w","h","i","s","t","l","e","p","i","g">>,
      <<"W","h","i","s","t","l","e","P","i","g">>>>,
    <<<<"h","i","g","h"," ","w","e","s","t">>,
      <<"H","i","g","h"," ","W","e","s","t">>>>,
    <<<<"b","a","r","d","s","t","o","w","n"," ","b","o","u","r","b","o","n">>,
      <<"B","a","r","d","s","t","o","w","n"," ","B","o","u","r","b","o","n"," ","C","o","m","p","a","n","y">>>>,
    <<<<"k","i","n","g"," ","o","f"," ","k","e","n","t","u","c","k","y">>,
      <<"B","r","o","w","n","-","F","o","r","m","a","n">>>>,
    <<<<"o","l","d"," ","e","l","k">>,
      <<"O","l","d"," ","E","l","k">>>>,
    <<<<"r","a","b","b","i","t"," ","h","o","l","e">>,
      <<"R","a","b","b","i","t"," ","H","o","l","e">>>>,
    <<<<"s","t","i","l","l"," ","a","u","s","t","i","n">>,
      <<"S","t","i","l","l"," ","A","u","s","t","i","n">>>>,
    <<<<"k","e","n","t","u","c","k","y"," ","o","w","l">>,
      <<"K","e","n","t","u","c","k","y"," ","O","w","l">>>>,
    <<<<"s","m","o","k","e"," ","w","a","g","o","n">>,
      <<"S","m","o","k","e"," ","W","a","g","o","n">>>>,
    <<<<"n","e","w"," ","r","i","f","f">>,
      <<"N","e","w"," ","R","i","f","f">>>>,
    <<<<"w","i","l","d","e","r","n","e","s","s"," ","t","r","a","i","l">>,
      <<"W","i","l","d","e","r","n","e","s","s"," ","T","r","a","i","l">>>>,
    <<<<"c","a","s","t","l","e"," ","&"," ","k","e","y">>,
      <<"C","a","s","t","l","e"," ","&"," ","K","e","y">>>>,
    <<<<"s","t","a","r","l","i","g","h","t">>,
      <<"S","t","a","r","l","i","g","h","t">>>>,
    <<<<"c","o","l","o","n","e","l"," ","e",".","h","."," ","t","a","y","l","o","r">>,
      <<"B","u","f","f","a","l","o"," ","T","r","a","c","e">>>>,
    <<<<"t","h","o","m","a","s"," ","h","."," ","h","a","n","d","y">>,
      <<"B","u","f","f","a","l","o"," ","T","r","a","c","e">>>>,
    <<<<"w","i","l","l","i","a","m"," ","l","a","r","u","e"," ","w","e","l","l","e","r">>,
      <<"B","u","f","f","a","l","o"," ","T","r","a","c","e">>>>
    >>


extract_distillery(product_name) ==
    IF product_name = <<>> THEN None
    ELSE
    LET H == {k \in DOMAIN KNOWN_DISTILLERIES :
                 Contains(lower(product_name), KNOWN_DISTILLERIES[k][1])}
    IN IF H # {} THEN StrV(KNOWN_DISTILLERIES[SetMin(H)][2]) ELSE None

-----------------------------------------------------------------------------
(* generate_id                                                             *)

\* hashlib.sha256(...).hexdigest()[:16], taken as injective: the digest of a
\* text is the text under a marker
sha256_hex16(text) == StrV(<<"sha256:">> \o text)

\* Canonical without .lower()
CanonicalCaseKept(product_name) ==
    SelectSeq(product_name,
              LAMBDA c : c \in Range(LowerLetters) \cup Digits)

\* re.sub(r'[^a-z0-9]', '', product_name.lower())
Canonical(product_name) ==
    SelectSeq(lower(product_name),
              LAMBDA c : c \in Range(LowerLetters) \cup Digits)

generate_id(product_name, release_year) ==
    sha256_hex16(Canonical(product_name) \o <<"-">> \o format(release_year))

\* def generate_id(product_name, release_year=2026)
GenerateIdDefaultYear == 2026
\* def normalize_month(raw, year=2026)
NormalizeMonthDefaultYear == 2026
\* raw.get('release_year', 2026)
DefaultReleaseYear == 2026
\* raw.get('bottle_size_ml') or 750
DefaultBottleSizeMl == 750

-----------------------------------------------------------------------------
(* normalize_release: the set of outcomes of the call, each None (record   *)
(* rejected), Raise (an exception leaves the function) or the dict         *)

\* (raw.get('product_name') or raw.get('name') or '')
RawName(raw) == Or(Or(Get(raw, "product_name"), Get(raw, "name")), StrV(<<>>))

\* the keys of the dict normalize_release returns
Fields ==
    {"id", "product_name", "distillery", "type", "proof", "abv", "age_years",
     "msrp", "bottle_size_ml", "release_month", "release_date", "release_year",
     "batch", "finish", "mashbill", "notes", "is_limited", "is_new",
     "image_url", "source_url"}

\* the dict literal of lines 260-281, given the parsed pieces
Normalized(raw, product_name, pa, age, price) ==
    [id |-> generate_id(product_name, IntV(GenerateIdDefaultYear)),
     product_name |-> StrV(product_name),
     distillery |-> Or(Get(raw, "distillery"), extract_distillery(product_name)),
     type |-> classify_type(Or(Get(raw, "type"), StrV(product_name))),
     proof |-> pa.proof,
     abv |-> pa.abv,
     age_years |-> age,
     msrp |-> price,
     bottle_size_ml |-> Or(Get(raw, "bottle_size_ml"), IntV(DefaultBottleSizeMl)),
     release_month |-> normalize_month(Or(Get(raw, "release_month"), Get(raw, "month")),
                                       NormalizeMonthDefaultYear),
     release_date |-> Get(raw, "release_date"),
     release_year |-> GetDefault(raw, "release_year", IntV(DefaultReleaseYear)),
     batch |-> Get(raw, "batch"),
     finish |-> Get(raw, "finish"),
     mashbill |-> Get(raw, "mashbill"),
     notes |-> Get(raw, "notes"),
     is_limited |-> IF Truthy(Get(raw, "is_limited")) THEN IntV(1) ELSE IntV(0),
     is_new |-> IF Truthy(Get(raw, "is_new")) THEN IntV(1) ELSE IntV(0),
     image_url |-> Get(raw, "image_url"),
     source_url |-> Get(raw, "source_url")]

normalize_release(raw) ==
    IF RawName(raw).tag # "str" THEN {Raise}      \* .strip() of a non-str
    ELSE
    LET product_name == strip(RawName(raw).v)
        proofs == parse_proof(Or(Get(raw, "proof"), Get(raw, "abv")))
        age == parse_age(Or(Or(Get(raw, "age"), Get(raw, "age_years")),
                            StrV(product_name)))
        price == parse_price(Or(Get(raw, "msrp"), Get(raw, "price")))
    IN IF product_name = <<>> THEN {None}
       ELSE IF Raise \in proofs \/ price = Raise THEN {Raise}
       ELSE {Normalized(raw, product_name, pa, age, price) : pa \in proofs}

-----------------------------------------------------------------------------
(* deduplicate_releases                                                    *)

\* if score >= 85
ScoreThreshold == 85

\* Fill with the test on the accumulator dropped: every non-null value of r
\* is assigned
FillOverwrite(existing, r) ==
    LET filled == {key \in DOMAIN r : ~IsNone(r[key])}
    IN [key \in DOMAIN existing \cup filled |->
            IF key \in filled THEN r[key] ELSE existing[key]]

\* for key, val in r.items():
\*     if existing.get(key) is None and val is not None: existing[key] = val
Fill(existing, r) ==
    LET filled == {key \in DOMAIN r : IsNone(Get(existing, key)) /\ ~IsNone(r[key])}
    IN [key \in DOMAIN existing \cup filled |->
            IF key \in filled THEN r[key] ELSE existing[key]]

\* AfterFill when the dict that is filled is the k-th dict of the list itself
AfterFillShared(list, k, filled) == [list EXCEPT ![k] = filled]

\* the list after the dict made from its k-th dict was filled: dict(r) and
\* dict(r1) are new dicts, so an assignment to one does not reach the list
AfterFill(list, k, filled) == list

\* position of rid among the keys of seen_ids ({} when rid not in seen_ids)
Slot(seen, rid) == {k \in DOMAIN seen : seen[k].key = rid}

\* Phase1Step keeping the new record and filling it from the accumulator
Phase1StepLastWins(seen, r) ==
    IF Slot(seen, r["id"]) # {}
    THEN [seen EXCEPT ![SetMin(Slot(seen, r["id"]))].val = Fill(r, @)]
    ELSE Append(seen, [key |-> r["id"], val |-> r])

\* Phase1Step deleting the key and inserting it again, which moves it last
Phase1StepReinsert(seen, r) ==
    IF Slot(seen, r["id"]) # {}
    THEN LET k == SetMin(Slot(seen, r["id"]))
         IN Append(SubSeq(seen, 1, k - 1) \o SubSeq(seen, k + 1, Len(seen)),
                   [key |-> r["id"], val |-> Fill(seen[k].val, r)])
    ELSE Append(seen, [key |-> r["id"], val |-> r])

\* one iteration of the phase 1 loop (lines 296-305)
Phase1Step(seen, r) ==
    IF Slot(seen, r["id"]) # {}
    THEN [seen EXCEPT ![SetMin(Slot(seen, r["id"]))].val = Fill(@, r)]
    ELSE Append(seen, [key |-> r["id"], val |-> r])

\* list(seen_ids.values())
Values(seen) == [k \in DOMAIN seen |-> seen[k].val]

\* fuzz.token_sort_ratio(r1['product_name'].lower(), r2['product_name'].lower())
Score(fz, r1, r2) ==
    fz.token_sort_ratio[lower(r1["product_name"].v), lower(r2["product_name"].v)]

\* Matches with a strict comparison
MatchesAbove(fz, r1, r2) == Score(fz, r1, r2) > ScoreThreshold

\* if score >= 85
Matches(fz, r1, r2) == Score(fz, r1, r2) >= ScoreThreshold

\* InnerStep without skip_indices.add(j)
InnerStepNoSkip(fz, dd, a, b, st) ==
    IF b \in st.skip THEN st
    ELSE IF Matches(fz, dd[a], dd[b])
    THEN [merged |-> Fill(st.merged, dd[b]), skip |-> st.skip]
    ELSE st

\* InnerStep keeping r2 and filling it from merged
InnerStepLastWins(fz, dd, a, b, st) ==
    IF b \in st.skip THEN st
    ELSE IF Matches(fz, dd[a], dd[b])
    THEN [merged |-> Fill(dd[b], st.merged), skip |-> st.skip \cup {b}]
    ELSE st

\* one iteration of the inner loop (lines 319-332) on st = [merged, skip]
InnerStep(fz, dd, a, b, st) ==
    IF b \in st.skip THEN st
    ELSE IF Matches(fz, dd[a], dd[b])
    THEN [merged |-> Fill(st.merged, dd[b]), skip |-> st.skip \cup {b}]
    ELSE st

RECURSIVE Phase1(_, _)
Phase1(seen, rs) ==
    IF rs = <<>> THEN seen ELSE Phase1(Phase1Step(seen, Head(rs)), Tail(rs))

RECURSIVE Inner(_, _, _, _, _)
Inner(fz, dd, a, b, st) ==
    IF b > Len(dd) THEN st ELSE Inner(fz, dd, a, b + 1, InnerStep(fz, dd, a, b, st))

RECURSIVE Outer(_, _, _, _, _)
Outer(fz, dd, a, skip, out) ==
    IF a > Len(dd) THEN out
    ELSE IF a \in skip THEN Outer(fz, dd, a + 1, skip, out)
    ELSE LET st == Inner(fz, dd, a, a + 1, [merged |-> dd[a], skip |-> skip])
         IN Outer(fz, dd, a + 1, st.skip, Append(out, st.merged))

\* the function as a whole: what the call returns for the list rs
deduplicate_releases(rs, fz) ==
    IF rs = <<>> THEN <<>>
    ELSE IF fz.available THEN Outer(fz, Values(Phase1(<<>>, rs)), 1, {}, <<>>)
    ELSE Values(Phase1(<<>>, rs))

-----------------------------------------------------------------------------
(* The inputs of the model                                                 *)

\* longest list handed to deduplicate_releases
MaxReleases == 3

Name_ab == <<"a","b">>
Name_Ab == <<"A","b">>
Name_ac == <<"a","c">>
Name_bc == <<"b","c">>

Named(nm) == "product_name" :> StrV(nm)
Batch(b) == "batch" :> StrV(<<b>>)

\* raw records as a scraper builds them: a name, with or without a batch.
\* "ab" and "Ab" are one product (one identity); "ac" and "bc" are others.
DedupRaws ==
    {Named(Name_ab), Named(Name_ab) @@ Batch("x"),
     Named(Name_Ab), Named(Name_Ab) @@ Batch("y"),
     Named(Name_ac), Named(Name_ac) @@ Batch("x"),
     Named(Name_bc), Named(Name_bc) @@ Batch("y")}

\* what normalize_release returns for them
NormPool == UNION {normalize_release(raw) : raw \in DedupRaws}

LowerNames == {lower(nm) : nm \in {Name_ab, Name_Ab, Name_ac, Name_bc}}

\* the scorer: an integer 0..100 for two strings, the same for both orders
\* and 100 for equal strings; any other pair scores just below or at the
\* threshold
Scorers ==
    {f \in [LowerNames \X LowerNames -> {ScoreThreshold - 1, ScoreThreshold, 100}] :
        \A a, b \in LowerNames :
            /\ f[a, b] = f[b, a]
            /\ (f[a, b] = 100) <=> (a = b)}

\* thefuzz before the import statement has run, or when it cannot be imported
NoFuzz == [available |-> FALSE,
           token_sort_ratio |-> [p \in LowerNames \X LowerNames |-> 0]]

-----------------------------------------------------------------------------
(* scrape.py: the list handed to deduplicate_releases                      *)

NormIdle == raws = <<>> /\ outs = <<>> /\ npc = "idle"

\* no field parser is being called on its own
ParseIdle ==
    /\ fn = "none" /\ toks = <<>> /\ arg = None
    /\ year_arg = NormalizeMonthDefaultYear /\ ret = None /\ ppc = "idle"

\* neither scrape.py nor seed.py is running
StoreIdle ==
    /\ script = "none" /\ dry_run = FALSE /\ conn = "none" /\ todo = <<>>
    /\ scraped = <<>> /\ all_raw_releases = <<>> /\ results = <<>>
    /\ normalized_list = <<>> /\ deduplicated = <<>> /\ stored = 0
    /\ upserted = <<>> /\ tbl_releases = <<>> /\ tbl_sources = {}
    /\ tbl_logs = <<>> /\ commits = 0 /\ spc = "idle"

\* RATE_LIMIT_WINDOW (seconds) and RATE_LIMIT_MAX (requests per window)
RATE_LIMIT_WINDOW == 60
RATE_LIMIT_MAX == 60

\* the clients of the server
IPs == {"10.0.0.1", "10.0.0.2"}

\* the server has had no request
RateIdle ==
    /\ now = 0
    /\ rate_store = [ip \in IPs |-> <<>>]
    /\ client_ip = "none" /\ response = "none"
    /\ admitted = [ip \in IPs |-> <<>>]
    /\ sent = [ip \in IPs |-> 0]

OtherIdle == ParseIdle /\ StoreIdle /\ RateIdle

Init ==
    /\ releases = <<>>
    /\ fuzz = NoFuzz
    /\ pc = "collect"
    /\ n = 1
    /\ seen_ids = <<>>
    /\ deduped = <<>>
    /\ i = 0 /\ j = 0
    /\ merged = None
    /\ skip_indices = {}
    /\ final = <<>>
    /\ result = <<>>
    /\ grp1 = <<>> /\ mgrp = <<>> /\ fgrp = <<>> /\ compared = {}
    /\ NormIdle
    /\ OtherIdle

\* norm = normalize_release(r); if norm: normalized.append(...)
\* normalized_list = [r['normalized'] for r in all_raw_releases]
Collect ==
    /\ pc = "collect" /\ Len(releases) < MaxReleases
    /\ \E norm \in NormPool :
          /\ norm \notin {None, Raise}
          /\ releases' = Append(releases, norm)
    /\ UNCHANGED <<fuzz, pc, n, seen_ids, deduped, i, j, merged, skip_indices,
                   final, result, grp1, mgrp, fgrp, compared, nvars, ovars>>

\* deduplicated = deduplicate_releases(normalized_list)
Call ==
    /\ pc = "collect"
    /\ pc' = "phase1"
    /\ UNCHANGED <<releases, fuzz, n, seen_ids, deduped, i, j, merged,
                   skip_indices, final, result, grp1, mgrp, fgrp, compared, nvars, ovars>>

-----------------------------------------------------------------------------
(* deduplicate_releases, statement by statement                            *)

\* if not releases: return []
ReturnEmpty ==
    /\ pc = "phase1" /\ releases = <<>>
    /\ result' = <<>>
    /\ pc' = "done"
    /\ UNCHANGED <<releases, fuzz, n, seen_ids, deduped, i, j, merged,
                   skip_indices, final, grp1, mgrp, fgrp, compared, nvars, ovars>>

\* rid in seen_ids: fill the accumulator
Phase1Merge ==
    /\ pc = "phase1" /\ n <= Len(releases)
    /\ Slot(seen_ids, releases[n]["id"]) # {}
    /\ seen_ids' = Phase1Step(seen_ids, releases[n])
    /\ grp1' = [grp1 EXCEPT ![SetMin(Slot(seen_ids, releases[n]["id"]))] = Append(@, n)]
    /\ LET k == SetMin(Slot(seen_ids, releases[n]["id"]))
       IN releases' = AfterFill(releases, Head(grp1[k]), seen_ids'[k].val)
    /\ n' = n + 1
    /\ UNCHANGED <<fuzz, pc, deduped, i, j, merged, skip_indices,
                   final, result, mgrp, fgrp, compared, nvars, ovars>>

\* else: seen_ids[rid] = dict(r)
Phase1Insert ==
    /\ pc = "phase1" /\ n <= Len(releases)
    /\ Slot(seen_ids, releases[n]["id"]) = {}
    /\ seen_ids' = Phase1Step(seen_ids, releases[n])
    /\ grp1' = Append(grp1, <<n>>)
    /\ n' = n + 1
    /\ UNCHANGED <<releases, fuzz, pc, deduped, i, j, merged, skip_indices,
                   final, result, mgrp, fgrp, compared, nvars, ovars>>

\* deduped = list(seen_ids.values()); from thefuzz import fuzz succeeds
ImportOk ==
    /\ pc = "phase1" /\ releases # <<>> /\ n > Len(releases)
    /\ \E f \in Scorers : fuzz' = [available |-> TRUE, token_sort_ratio |-> f]
    /\ deduped' = Values(seen_ids)
    /\ final' = <<>>
    /\ skip_indices' = {}
    /\ i' = 1
    /\ pc' = "outer"
    /\ UNCHANGED <<releases, n, seen_ids, j, merged, result, grp1, mgrp,
                   fgrp, compared, nvars, ovars>>

\* ImportError without the except clause: the exception leaves the function
ImportErrorRaises ==
    /\ pc = "phase1" /\ releases # <<>> /\ n > Len(releases)
    /\ fuzz' = NoFuzz
    /\ deduped' = Values(seen_ids)
    /\ pc' = "raised"
    /\ UNCHANGED <<releases, n, seen_ids, i, j, merged, skip_indices,
                   final, result, grp1, mgrp, fgrp, compared, nvars, ovars>>

\* deduped = list(seen_ids.values()); except ImportError: return deduped
ImportError ==
    /\ pc = "phase1" /\ releases # <<>> /\ n > Len(releases)
    /\ fuzz' = NoFuzz
    /\ deduped' = Values(seen_ids)
    /\ result' = Values(seen_ids)
    /\ fgrp' = [k \in DOMAIN seen_ids |-> <<k>>]
    /\ pc' = "done"
    /\ UNCHANGED <<releases, n, seen_ids, i, j, merged, skip_indices,
                   final, grp1, mgrp, compared, nvars, ovars>>

\* OuterSkip without the test: a consumed record starts a pass of its own
OuterSkipIgnored ==
    /\ pc = "outer" /\ i <= Len(deduped)
    /\ i \in skip_indices
    /\ merged' = deduped[i]
    /\ mgrp' = <<i>>
    /\ j' = i + 1
    /\ pc' = "inner"
    /\ UNCHANGED <<releases, fuzz, n, seen_ids, deduped, i, skip_indices,
                   final, result, grp1, fgrp, compared, nvars, ovars>>

\* if i in skip_indices: continue
OuterSkip ==
    /\ pc = "outer" /\ i <= Len(deduped)
    /\ i \in skip_indices
    /\ i' = i + 1
    /\ UNCHANGED <<releases, fuzz, pc, n, seen_ids, deduped, j, merged,
                   skip_indices, final, result, grp1, mgrp, fgrp, compared, nvars, ovars>>

\* merged = dict(r1); for j in range(i + 1, len(deduped))
OuterBegin ==
    /\ pc = "outer" /\ i <= Len(deduped)
    /\ i \notin skip_indices
    /\ merged' = deduped[i]
    /\ mgrp' = <<i>>
    /\ j' = i + 1
    /\ pc' = "inner"
    /\ UNCHANGED <<releases, fuzz, n, seen_ids, deduped, i, skip_indices,
                   final, result, grp1, fgrp, compared, nvars, ovars>>

\* if j in skip_indices: continue
InnerSkip ==
    /\ pc = "inner" /\ j <= Len(deduped)
    /\ j \in skip_indices
    /\ j' = j + 1
    /\ UNCHANGED <<releases, fuzz, pc, n, seen_ids, deduped, i, merged,
                   skip_indices, final, result, grp1, mgrp, fgrp, compared, nvars, ovars>>

\* score >= 85: fill merged from r2, skip_indices.add(j)
InnerMerge ==
    /\ pc = "inner" /\ j <= Len(deduped)
    /\ j \notin skip_indices
    /\ Matches(fuzz, deduped[i], deduped[j])
    /\ LET st == InnerStep(fuzz, deduped, i, j,
                           [merged |-> merged, skip |-> skip_indices])
       IN merged' = st.merged /\ skip_indices' = st.skip
    /\ deduped' = AfterFill(deduped, i, merged')
    /\ mgrp' = Append(mgrp, j)
    /\ compared' = compared \cup {<<i, j>>}
    /\ j' = j + 1
    /\ UNCHANGED <<releases, fuzz, pc, n, seen_ids, i, final, result,
                   grp1, fgrp, nvars, ovars>>

\* score < 85: nothing happens to r2
InnerKeep ==
    /\ pc = "inner" /\ j <= Len(deduped)
    /\ j \notin skip_indices
    /\ ~Matches(fuzz, deduped[i], deduped[j])
    /\ LET st == InnerStep(fuzz, deduped, i, j,
                           [merged |-> merged, skip |-> skip_indices])
       IN merged' = st.merged /\ skip_indices' = st.skip
    /\ compared' = compared \cup {<<i, j>>}
    /\ j' = j + 1
    /\ UNCHANGED <<releases, fuzz, pc, n, seen_ids, deduped, i, final, result,
                   grp1, mgrp, fgrp, nvars, ovars>>

\* final.append(merged)
AppendMerged ==
    /\ pc = "inner" /\ j > Len(deduped)
    /\ final' = Append(final, merged)
    /\ fgrp' = Append(fgrp, mgrp)
    /\ i' = i + 1
    /\ pc' = "outer"
    /\ UNCHANGED <<releases, fuzz, n, seen_ids, deduped, j, merged,
                   skip_indices, result, grp1, mgrp, compared, nvars, ovars>>

\* return final
ReturnFinal ==
    /\ pc = "outer" /\ i > Len(deduped)
    /\ result' = final
    /\ pc' = "done"
    /\ UNCHANGED <<releases, fuzz, n, seen_ids, deduped, i, j, merged,
                   skip_indices, final, grp1, mgrp, fgrp, compared, nvars, ovars>>

Next ==
    \/ Collect
    \/ Call
    \/ ReturnEmpty
    \/ Phase1Merge
    \/ Phase1Insert
    \/ ImportOk
    \/ ImportError
    \/ OuterSkip
    \/ OuterBegin
    \/ InnerSkip
    \/ InnerMerge
    \/ InnerKeep
    \/ AppendMerged
    \/ ReturnFinal

Spec == Init /\ [][Next]_vars

-----------------------------------------------------------------------------
(* deduplicate_releases on records that differ in the fields               *)
(* normalize_release gives a default                                       *)

\* two names, each plain and with an explicit type, bottle size, release
\* year and flags; a third name; and a record whose release_year is there
\* and null
DefaultedRaws ==
    LET explicit == ("type" :> StrV(<<"r","y","e">>)) @@ ("bottle_size_ml" :> IntV(700))
                    @@ ("release_year" :> IntV(2025)) @@ ("is_limited" :> IntV(1))
                    @@ ("is_new" :> IntV(1))
    IN {Named(Name_ab), Named(Name_Ab) @@ explicit,
        Named(Name_ac), Named(Name_ac) @@ explicit,
        Named(Name_bc),
        Named(Name_ab) @@ ("release_year" :> None)}

\* Collect for these records
CollectDefaulted ==
    /\ pc = "collect" /\ Len(releases) < MaxReleases
    /\ \E raw \in DefaultedRaws : \E norm \in normalize_release(raw) :
          /\ norm \notin {None, Raise}
          /\ releases' = Append(releases, norm)
    /\ UNCHANGED <<fuzz, pc, n, seen_ids, deduped, i, j, merged, skip_indices,
                   final, result, grp1, mgrp, fgrp, compared, nvars, ovars>>

NextDefaulted ==
    \/ CollectDefaulted
    \/ Call
    \/ ReturnEmpty
    \/ Phase1Merge
    \/ Phase1Insert
    \/ ImportOk
    \/ ImportError
    \/ OuterSkip
    \/ OuterBegin
    \/ InnerSkip
    \/ InnerMerge
    \/ InnerKeep
    \/ AppendMerged
    \/ ReturnFinal

SpecDefaulted == Init /\ [][NextDefaulted]_vars

-----------------------------------------------------------------------------
(* normalize_release run on two raw records, one after the other           *)

NormNames == {<<"a","b">>, <<"A","b">>, <<"a","-","b">>, <<" ","a","b">>,
              <<"a","c">>, <<>>}

NameRaws == {Named(nm) : nm \in NormNames}

YearRaws ==
    NameRaws \cup {r @@ ("release_year" :> IntV(y)) : r \in NameRaws, y \in {2025, 2026}}

\* raw records that carry the 'name' alias, with or without 'product_name'
AliasRaws ==
    {("product_name" :> StrV(<<" ">>)) @@ ("name" :> StrV(Name_ab)),
     ("product_name" :> StrV(<<>>)) @@ ("name" :> StrV(Name_ac)),
     ("product_name" :> None) @@ ("name" :> StrV(<<" ","a","b"," ">>)),
     ("product_name" :> StrV(Name_ab)) @@ ("name" :> StrV(Name_ac)),
     ("product_name" :> StrV(<<" ">>)) @@ ("name" :> StrV(<<" ">>)),
     "name" :> StrV(Name_ac)}

\* raw records with a type text, a bottle size or the two flags
TypeRaws ==
    {Named(<<"r","y","e">>),
     Named(Name_ab) @@ ("type" :> StrV(<<"R","y","e">>)),
     Named(Name_ab) @@ ("type" :> StrV(<<"z","z">>)) @@ ("is_limited" :> StrV(<<"y">>)),
     Named(Name_ab) @@ ("bottle_size_ml" :> IntV(700)) @@ ("is_new" :> StrV(<<"y">>)),
     Named(Name_ab) @@ ("bottle_size_ml" :> IntV(0)) @@ ("is_limited" :> IntV(0))
                    @@ ("is_new" :> IntV(2))}

\* raw records with a release month, under either key, with and without a
\* release year
MonthRaws ==
    {Named(Name_ab) @@ ("release_month" :> StrV(<<"J","a","n">>)),
     Named(Name_ab) @@ ("release_month" :> StrV(<<"J","a","n">>))
                    @@ ("release_year" :> IntV(2025)),
     Named(Name_ab) @@ ("month" :> StrV(<<"Q","2">>)) @@ ("release_year" :> IntV(2026)),
     Named(Name_ab) @@ ("release_month" :> StrV(<<"x">>))}

\* with and without the fields a second source adds
NormRaws ==
    YearRaws
    \cup {r @@ ("proof" :> StrV(<<"9","0"," ","p","r","o","o","f">>))
            @@ ("_source" :> StrV(<<"s","2">>)) @@ ("is_limited" :> IntV(1)) :
             r \in YearRaws}
    \cup AliasRaws
    \cup TypeRaws
    \cup MonthRaws

DedupIdle ==
    /\ releases = <<>> /\ fuzz = NoFuzz /\ pc = "idle" /\ n = 1
    /\ seen_ids = <<>> /\ deduped = <<>> /\ i = 0 /\ j = 0 /\ merged = None
    /\ skip_indices = {} /\ final = <<>> /\ result = <<>>
    /\ grp1 = <<>> /\ mgrp = <<>> /\ fgrp = <<>> /\ compared = {}

NormInit ==
    /\ raws = <<>>
    /\ outs = <<>>
    /\ npc = "scrape"
    /\ DedupIdle
    /\ OtherIdle

\* a scraper hands over a raw record
Scrape ==
    /\ npc = "scrape" /\ Len(raws) < 2
    /\ \E raw \in NormRaws : raws' = Append(raws, raw)
    /\ npc' = IF Len(raws) = 1 THEN "normalize" ELSE "scrape"
    /\ UNCHANGED <<outs, dvars, ovars>>

\* norm = normalize_release(r)
Normalize ==
    /\ npc = "normalize" /\ Len(outs) < Len(raws)
    /\ \E out \in normalize_release(raws[Len(outs) + 1]) : outs' = Append(outs, out)
    /\ npc' = IF Len(outs) + 1 = Len(raws) THEN "done" ELSE "normalize"
    /\ UNCHANGED <<raws, dvars, ovars>>

NormNext == Scrape \/ Normalize

SpecNorm == NormInit /\ [][NormNext]_vars

-----------------------------------------------------------------------------
(* one field parser called on a text put together from a few pieces        *)

Parsers ==
    {"parse_proof", "parse_age", "parse_price", "normalize_month", "classify_type"}

MaxTokens == 3

\* the numbers of the text have at most this many digits
MaxDigits == 4

ProofTokens ==
    {<<"1","0","0">>, <<"1","0","1">>, <<"4","5">>, <<".">>, <<" ">>,
     <<"p","r","o","o","f">>, <<"%">>, <<"A","B","V">>}

AgeTokens ==
    {<<"7">>, <<"2","0">>, <<"-","7">>, <<"-","2","0">>, <<" ">>,
     <<" ","y","e","a","r","s">>, <<"y","r">>, <<"y","o">>, <<"x">>}

PriceTokens ==
    {<<"$">>, <<"$","5","0">>, <<"5","0">>, <<"2">>, <<".">>, <<",">>, <<" ">>,
     <<"x">>, <<"t","b","d">>, <<"N","/","A">>}

MonthTokens ==
    {<<"J","a","n">>, <<"M","a","r","c","h">>, <<" ">>, <<"2","0","2","6">>,
     <<"4","/","2","6">>, <<"0","/","2","6">>, <<"1","3","/","2","6">>,
     <<"Q","0">>, <<"Q","1">>, <<"q","2">>, <<"Q","3">>, <<"Q","4">>, <<"Q","5">>}

TypeTokens ==
    {<<"r","y","e">>, <<"w","h","e","a","t">>, <<"w","h","e","a","t","e","d"," ">>,
     <<" ","w","h","i","s","k","e","y">>, <<"s","t","r","a","i","g","h","t"," ">>,
     <<"b","o","u","r","b","o","n">>, <<"B","l","e","n","d","e","d"," ">>,
     <<"s","c","o","t","c","h">>, <<"I","s","l","a","y">>,
     <<"s","i","n","g","l","e"," ","m","a","l","t">>, <<" ">>, <<"x">>}

Tokens(f) ==
    CASE f = "parse_proof" -> ProofTokens
      [] f = "parse_age" -> AgeTokens
      [] f = "parse_price" -> PriceTokens
      [] f = "normalize_month" -> MonthTokens
      [] f = "classify_type" -> TypeTokens

\* the target years normalize_month is called with
Years == {2025, 2026}

\* the text the pieces make
RECURSIVE Flat(_)
Flat(ts) == IF ts = <<>> THEN <<>> ELSE Head(ts) \o Flat(Tail(ts))

\* no number of the text, read with its dots and commas, has more than
\* MaxDigits digits, or more digits behind a dot than float() keeps here
NumbersFit(s) ==
    \A p \in 1..Len(s) :
        /\ (s[p] \in NumDot \cup {","} /\ (p = 1 \/ s[p - 1] \notin NumDot \cup {","}))
           => Cardinality({k \in p..RunEnd(s, p, NumDot \cup {","}) : IsDigit(s[k])})
                  <= MaxDigits
        /\ s[p] = "."
           => Cardinality({k \in (p + 1)..RunEnd(s, p + 1, Digits \cup {","}) :
                              IsDigit(s[k])}) <= 3

\* the results the call f(a) can have; normalize_month also takes the year
Apply(f, a, y) ==
    CASE f = "parse_proof" -> parse_proof(a)
      [] f = "parse_age" -> {parse_age(a)}
      [] f = "parse_price" -> {parse_price(a)}
      [] f = "normalize_month" -> {normalize_month(a, y)}
      [] f = "classify_type" -> {classify_type(a)}

ParseInit ==
    /\ fn \in Parsers
    /\ toks = <<>>
    /\ arg = None
    /\ year_arg = NormalizeMonthDefaultYear
    /\ ret = None
    /\ ppc = "input"
    /\ DedupIdle
    /\ NormIdle
    /\ StoreIdle
    /\ RateIdle

\* the raw value grows by one piece
Type ==
    /\ ppc = "input" /\ Len(toks) < MaxTokens
    /\ \E t \in Tokens(fn) :
           /\ NumbersFit(Flat(Append(toks, t)))
           /\ toks' = Append(toks, t)
    /\ UNCHANGED <<fn, arg, year_arg, ret, ppc, dvars, nvars, svars, rvars>>

\* the parser is called on the text, or on None when there is no text; a
\* ValueError leaving it is recorded as Raise
ParserCall ==
    /\ ppc = "input"
    /\ \E a \in {StrV(Flat(toks))} \cup (IF toks = <<>> THEN {None} ELSE {}),
          y \in (IF fn = "normalize_month" THEN Years ELSE {year_arg}) :
           /\ arg' = a
           /\ year_arg' = y
           /\ ret' \in Apply(fn, a, y)
    /\ ppc' = "returned"
    /\ UNCHANGED <<fn, toks, dvars, nvars, svars, rvars>>

ParseNext == Type \/ ParserCall

SpecParse == ParseInit /\ [][ParseNext]_vars

-----------------------------------------------------------------------------
(* scrape.py (main) and seed.py (seed) with the tables of lib/db.py        *)

\* the keys of SCRAPERS, in definition order
SCRAPERS ==
    <<<<"b","r","e","a","k","i","n","g","-","b","o","u","r","b","o","n">>,
      <<"b","o","u","r","b","o","n","-","b","o","s","s","m","a","n">>,
      <<"s","o","a","k","i","n","g","-","o","a","k">>,
      <<"a","r","t","i","c","l","e","s">>>>

\* the raw records a scraper can return: two products, the second with the
\* source name and URL its scraper attaches, a record without a usable name
\* and one whose proof text makes normalize_release raise
ScrapeRaws ==
    {Named(Name_ab),
     Named(Name_ac) @@ ("_source" :> StrV(<<"s">>)) @@ ("_source_url" :> StrV(<<"u">>)),
     Named(<<" ">>),
     Named(Name_ab) @@ ("proof" :> StrV(<<".">>))}

\* records shaped like those of SAMPLE_RELEASES: each has a product_name
SeedRaws ==
    {Named(Name_ab) @@ ("_source" :> StrV(<<"s">>)),
     Named(Name_ab) @@ ("release_year" :> IntV(2025)) @@ ("notes" :> StrV(<<"n">>)),
     Named(Name_Ab) @@ Batch("x") @@ ("source_url" :> StrV(<<"u">>)),
     Named(Name_ac),
     Named(<<" ">>),
     Named(Name_ac) @@ ("msrp" :> StrV(<<".">>))}

\* the scorers that differ on the two product names of ScrapeRaws
StoreScorers ==
    {[available |-> TRUE, token_sort_ratio |-> f] :
         f \in {g \in Scorers :
                   \A a \in LowerNames : a # Name_bc => g[a, Name_bc] = ScoreThreshold - 1}}

ListsUpTo(S, len) == UNION {[1..m -> S] : m \in 0..len}

\* what scraper.scrape() can do: raise, or return a list of raw records
ScrapeOutcomes(len) ==
    {[raised |-> TRUE, list |-> <<>>]}
    \cup {[raised |-> FALSE, list |-> l] : l \in ListsUpTo(ScrapeRaws, len)}

\* what normalize_release can return for each record of the list
RECURSIVE NormalizeEach(_)
NormalizeEach(rs) ==
    IF rs = <<>> THEN {<<>>}
    ELSE {<<x>> \o t : x \in normalize_release(Head(rs)), t \in NormalizeEach(Tail(rs))}

KeptAlways(norm) == TRUE

\* if norm:  a dict with its keys is truthy, None is not
Kept(norm) == norm # None

\* the dict appended to normalized (lines 73-78)
Entry(r, norm, name) ==
    [normalized |-> norm,
     raw |-> r,
     source_name |-> GetDefault(r, "_source", StrV(name)),
     source_url |-> GetDefault(r, "_source_url", StrV(<<>>))]

\* the list normalized the loop of lines 70-78 builds
RECURSIVE Entries(_, _, _)
Entries(rs, ns, name) ==
    IF rs = <<>> THEN <<>>
    ELSE (IF Kept(Head(ns)) THEN <<Entry(Head(rs), Head(ns), name)>> ELSE <<>>)
         \o Entries(Tail(rs), Tail(ns), name)

upsert_releaseReplaces(tbl, release) ==
    IF release["id"] \in DOMAIN tbl
    THEN [tbl EXCEPT ![release["id"]] = release]
    ELSE tbl @@ (release["id"] :> release)

\* upsert_release: INSERT ... ON CONFLICT(id) DO UPDATE SET col = COALESCE(:col, col)
\* for every column but id and release_year
upsert_release(tbl, release) ==
    IF release["id"] \in DOMAIN tbl
    THEN [tbl EXCEPT ![release["id"]] =
              [f \in Fields |->
                   IF f \in {"id", "release_year"} THEN @[f]
                   ELSE IF release[f] # None THEN release[f] ELSE @[f]]]
    ELSE tbl @@ (release["id"] :> release)

\* add_source: INSERT OR IGNORE under UNIQUE(release_id, source_name)
add_source(tbl, release_id, source_name, source_url, raw_data) ==
    IF \E row \in tbl : row.release_id = release_id /\ row.source_name = source_name
    THEN tbl
    ELSE tbl \cup {[release_id |-> release_id, source_name |-> source_name,
                    source_url |-> source_url, raw_data |-> raw_data]}

\* the inner loop of lines 122-124: add_source for the entries, from the k-th
\* on, whose normalized id is that of release
RECURSIVE AddSources(_, _, _, _)
AddSources(tbl, srcs, k, release) ==
    IF k > Len(srcs) THEN tbl
    ELSE AddSources(IF srcs[k].normalized["id"] = release["id"]
                    THEN add_source(tbl, release["id"], srcs[k].source_name,
                                    srcs[k].source_url, srcs[k].raw)
                    ELSE tbl,
                    srcs, k + 1, release)

log_scrapeSuccessOnly(tbl, source_name, status, count) ==
    IF status = "error" THEN tbl
    ELSE Append(tbl, [source_name |-> StrV(source_name), status |-> status, count |-> count])

\* log_scrape
log_scrape(tbl, source_name, status, count) ==
    Append(tbl, [source_name |-> StrV(source_name), status |-> status, count |-> count])

MainInitOpens ==
    /\ script = "scrape"
    /\ dry_run \in BOOLEAN
    /\ conn = "open"
    /\ todo \in {SCRAPERS} \cup {<<SCRAPERS[k]>> : k \in DOMAIN SCRAPERS}
    /\ spc = "scrapers"

MainInit ==
    /\ script = "scrape"
    /\ dry_run \in BOOLEAN
    /\ conn = IF dry_run THEN "none" ELSE "open"
    /\ todo \in {SCRAPERS} \cup {<<SCRAPERS[k]>> : k \in DOMAIN SCRAPERS}
    /\ spc = "scrapers"

SeedInit ==
    /\ script = "seed"
    /\ dry_run = FALSE
    /\ conn = "open"
    /\ todo = <<>>
    /\ spc = "seed"

StoreInit ==
    /\ MainInit \/ SeedInit
    /\ scraped = <<>> /\ all_raw_releases = <<>> /\ results = <<>>
    /\ normalized_list = <<>> /\ deduplicated = <<>> /\ stored = 0
    /\ upserted = <<>> /\ tbl_releases = <<>> /\ tbl_sources = {}
    /\ tbl_logs = <<>> /\ commits = 0
    /\ DedupIdle
    /\ NormIdle
    /\ ParseIdle
    /\ RateIdle

\* one iteration of the scraper loop (lines 56-94): scrape, normalize, log
RunScraper ==
    /\ script = "scrape" /\ spc = "scrapers" /\ todo # <<>>
    /\ \E out \in ScrapeOutcomes(MaxReleases - Len(scraped)) :
       \E ns \in NormalizeEach(out.list) :
           LET name == Head(todo)
               failed == out.raised \/ \E k \in DOMAIN ns : ns[k] = Raise
               normalized == IF failed THEN <<>> ELSE Entries(out.list, ns, name)
               status == IF failed THEN "error" ELSE "success"
           IN /\ scraped' = scraped \o out.list
              /\ all_raw_releases' = all_raw_releases \o normalized
              /\ results' = results @@ (name :> status)
              /\ tbl_logs' = IF conn = "open"
                             THEN log_scrape(tbl_logs, name, status, Len(normalized))
                             ELSE tbl_logs
              /\ commits' = IF conn = "open" THEN commits + 1 ELSE commits
    /\ todo' = Tail(todo)
    /\ UNCHANGED <<script, dry_run, conn, normalized_list, deduplicated, stored,
                   upserted, tbl_releases, tbl_sources, spc, dvars, nvars, pvars, rvars>>

\* lines 104-105: deduplicate_releases on the normalized records; thefuzz is
\* importable, with some scorer, or it is not
Deduplicate ==
    /\ script = "scrape" /\ spc = "scrapers" /\ todo = <<>>
    /\ normalized_list' = [k \in DOMAIN all_raw_releases |-> all_raw_releases[k].normalized]
    /\ \E fz \in StoreScorers \cup {NoFuzz} :
           /\ fuzz' = fz
           /\ deduplicated' = deduplicate_releases(normalized_list', fz)
    /\ spc' = IF ~dry_run /\ conn = "open" THEN "store" ELSE "preview"
    /\ UNCHANGED <<script, dry_run, conn, todo, scraped, all_raw_releases, results,
                   stored, upserted, tbl_releases, tbl_sources, tbl_logs, commits,
                   releases, pc, n, seen_ids, deduped, i, j, merged, skip_indices,
                   final, result, grp1, mgrp, fgrp, compared, nvars, pvars, rvars>>

\* one iteration of the store loop (lines 117-125)
StoreRelease ==
    /\ script = "scrape" /\ spc = "store" /\ stored < Len(deduplicated)
    /\ LET release == deduplicated[stored + 1]
       IN /\ tbl_releases' = upsert_release(tbl_releases, release)
          /\ upserted' = Append(upserted, release)
          /\ tbl_sources' = AddSources(tbl_sources, all_raw_releases, 1, release)
    /\ stored' = stored + 1
    /\ UNCHANGED <<script, dry_run, conn, todo, scraped, all_raw_releases, results,
                   normalized_list, deduplicated, tbl_logs, commits, spc,
                   dvars, nvars, pvars, rvars>>

\* line 127: conn.commit() after the store loop
Save ==
    /\ script = "scrape" /\ spc = "store" /\ stored = Len(deduplicated)
    /\ commits' = commits + 1
    /\ spc' = "summary"
    /\ UNCHANGED <<script, dry_run, conn, todo, scraped, all_raw_releases, results,
                   normalized_list, deduplicated, stored, upserted, tbl_releases,
                   tbl_sources, tbl_logs, dvars, nvars, pvars, rvars>>

\* lines 129-135: the dry run prints a preview instead
Preview ==
    /\ script = "scrape" /\ spc = "preview"
    /\ spc' = "summary"
    /\ UNCHANGED <<script, dry_run, conn, todo, scraped, all_raw_releases, results,
                   normalized_list, deduplicated, stored, upserted, tbl_releases,
                   tbl_sources, tbl_logs, commits, dvars, nvars, pvars, rvars>>

\* lines 137-147: the summary, then conn.close() if there is a connection
Close ==
    /\ script = "scrape" /\ spc = "summary"
    /\ conn' = IF conn = "open" THEN "closed" ELSE conn
    /\ spc' = "done"
    /\ UNCHANGED <<script, dry_run, todo, scraped, all_raw_releases, results,
                   normalized_list, deduplicated, stored, upserted, tbl_releases,
                   tbl_sources, tbl_logs, commits, dvars, nvars, pvars, rvars>>

\* seed.py, one iteration of the loop over SAMPLE_RELEASES (lines 296-309)
SeedRecord ==
    /\ script = "seed" /\ spc = "seed" /\ Len(scraped) < MaxReleases
    /\ \E raw \in SeedRaws : \E normalized \in normalize_release(raw) :
           /\ scraped' = Append(scraped, raw)
           /\ IF normalized = Raise
              THEN /\ spc' = "crashed"
                   /\ UNCHANGED <<upserted, tbl_releases, tbl_sources>>
              ELSE IF normalized = None
              THEN UNCHANGED <<upserted, tbl_releases, tbl_sources, spc>>
              ELSE /\ tbl_releases' = upsert_release(tbl_releases, normalized)
                   /\ upserted' = Append(upserted, normalized)
                   /\ tbl_sources' =
                          add_source(tbl_sources, normalized["id"],
                                     GetDefault(raw, "_source",
                                                StrV(<<"u","n","k","n","o","w","n">>)),
                                     GetDefault(raw, "source_url", StrV(<<>>)), raw)
                   /\ UNCHANGED spc
    /\ UNCHANGED <<script, dry_run, conn, todo, all_raw_releases, results,
                   normalized_list, deduplicated, stored, tbl_logs, commits,
                   dvars, nvars, pvars, rvars>>

\* seed.py lines 311-312: conn.commit(), conn.close()
SeedCommit ==
    /\ script = "seed" /\ spc = "seed"
    /\ commits' = commits + 1
    /\ conn' = "closed"
    /\ spc' = "done"
    /\ UNCHANGED <<script, dry_run, todo, scraped, all_raw_releases, results,
                   normalized_list, deduplicated, stored, upserted, tbl_releases,
                   tbl_sources, tbl_logs, dvars, nvars, pvars, rvars>>

StoreNext ==
    \/ RunScraper \/ Deduplicate \/ StoreRelease \/ Save \/ Preview \/ Close
    \/ SeedRecord \/ SeedCommit

SpecStore == StoreInit /\ [][StoreNext]_vars

-----------------------------------------------------------------------------
(* server.py: the rate limiter in front of BourbonHandler.do_GET           *)

\* a client makes at most this many requests beyond its share
MaxExtra == 1

\* the instants at which requests arrive: the start, the last second of the
\* window that starts there, and the first second after it
Instants == {0, RATE_LIMIT_WINDOW - 1, RATE_LIMIT_WINDOW}

\* the first client can use up the limit, the other one makes a few requests
Share(ip) == IF ip = "10.0.0.1" THEN RATE_LIMIT_MAX ELSE 0

\* [t for t in _rate_store[ip] if now - t < RATE_LIMIT_WINDOW]
Recent(ts, t_now) == SelectSeq(ts, LAMBDA t : t_now - t < RATE_LIMIT_WINDOW)

is_rate_limitedOneMore(store, ip, t_now) ==
    LET cleaned == Recent(store[ip], t_now)
    IN IF Len(cleaned) > RATE_LIMIT_MAX
       THEN [limited |-> TRUE, store |-> [store EXCEPT ![ip] = cleaned]]
       ELSE [limited |-> FALSE, store |-> [store EXCEPT ![ip] = Append(cleaned, t_now)]]

\* _is_rate_limited(ip) at time t_now: the answer and the store it leaves
is_rate_limited(store, ip, t_now) ==
    LET cleaned == Recent(store[ip], t_now)
    IN IF Len(cleaned) >= RATE_LIMIT_MAX
       THEN [limited |-> TRUE, store |-> [store EXCEPT ![ip] = cleaned]]
       ELSE [limited |-> FALSE, store |-> [store EXCEPT ![ip] = Append(cleaned, t_now)]]

RateInit ==
    /\ RateIdle
    /\ DedupIdle
    /\ NormIdle
    /\ ParseIdle
    /\ StoreIdle

\* time passes between two requests
Tick ==
    /\ \E t \in Instants : t > now /\ now' = t
    /\ UNCHANGED <<rate_store, client_ip, response, admitted, sent, dvars, nvars,
                   pvars, svars>>

\* do_GET for a request of client ip (lines 134-139): 429 when the client
\* is rate limited, else the request goes on to the routes
do_GET ==
    /\ \E ip \in IPs :
           /\ sent[ip] < Share(ip) + MaxExtra
           /\ LET r == is_rate_limited(rate_store, ip, now)
              IN /\ rate_store' = r.store
                 /\ response' = IF r.limited THEN "429" ELSE "routed"
                 /\ admitted' = IF r.limited THEN admitted
                                ELSE [admitted EXCEPT ![ip] = Append(@, now)]
           /\ client_ip' = ip
           /\ sent' = [sent EXCEPT ![ip] = @ + 1]
    /\ UNCHANGED <<now, dvars, nvars, pvars, svars>>

RateNext == Tick \/ do_GET

SpecRate == RateInit /\ [][RateNext]_vars

-----------------------------------------------------------------------------
(* Properties                                                              *)

Done == pc = "done"

\* input indices merged into the m-th output record
Group(m) == UNION {Range(grp1[p]) : p \in Range(fgrp[m])}

\* index of the first input record carrying identity rid
FirstOcc(rid) == SetMin({k \in DOMAIN releases : releases[k]["id"] = rid})

\* the merge groups of phase 2 so far, each headed by its survivor
GroupsNow == IF pc = "inner" THEN Append(fgrp, mgrp) ELSE fgrp
MergedInto(a, b) == \E g \in Range(GroupsNow) : Head(g) = a /\ b \in Range(g)
Owner(b) == Head(CHOOSE g \in Range(GroupsNow) : b \in Range(g))

\* the scorer's answer for the lowercased names of deduped[a] and deduped[b]
NameScore(a, b) ==
    fuzz.token_sort_ratio[lower(deduped[a]["product_name"].v),
                          lower(deduped[b]["product_name"].v)]

\* value of key in the first record of G, in arrival order, that has one
FirstByArrival(G, key) ==
    LET C == {k \in G : ~IsNone(releases[k][key])}
    IN IF C = {} THEN None ELSE releases[SetMin(C)][key]

\* k comes before l when the group is read identity by identity
Before(k, l) ==
    \/ FirstOcc(releases[k]["id"]) < FirstOcc(releases[l]["id"])
    \/ releases[k]["id"] = releases[l]["id"] /\ k <= l

FirstByIdentity(G, key) ==
    LET C == {k \in G : ~IsNone(releases[k][key])}
    IN IF C = {} THEN None
       ELSE releases[CHOOSE k \in C : \A l \in C : Before(k, l)][key]

\* C1: a merge step of phase 1 or phase 2 leaves every non-null field of the
\* accumulating record as it was; only null fields are assigned.
C1_MergeFillsNullOnly ==
    [][/\ \A k \in DOMAIN seen_ids : \A key \in DOMAIN seen_ids[k].val :
              ~IsNone(seen_ids[k].val[key]) =>
                  /\ k \in DOMAIN seen_ids'
                  /\ key \in DOMAIN seen_ids'[k].val
                  /\ seen_ids'[k].val[key] = seen_ids[k].val[key]
       /\ (pc = "inner" /\ pc' = "inner") =>
              \A key \in DOMAIN merged :
                  ~IsNone(merged[key]) =>
                      key \in DOMAIN merged' /\ merged'[key] = merged[key]
      ]_vars

\* C1 witness: phase 1 has merged a record whose batch differs from the
\* accumulator's, and phase 2 has just merged one whose batch differs from
\* the survivor's.
C1_Witness ==
    /\ pc = "inner" /\ Len(mgrp) >= 2
    /\ ~IsNone(deduped[mgrp[Len(mgrp)]]["batch"])
    /\ ~IsNone(merged["batch"])
    /\ deduped[mgrp[Len(mgrp)]]["batch"] # merged["batch"]
    /\ \E k \in DOMAIN grp1 : \E x \in Range(grp1[k]) :
          /\ ~IsNone(releases[x]["batch"])
          /\ releases[x]["batch"] # seen_ids[k].val["batch"]

\* C2 as claimed: every output field is the value of the earliest record, in
\* input arrival order, of the merged group that has a non-null value.
C2_FirstNonNullByArrival ==
    Done => \A m \in DOMAIN result : \A key \in Fields :
                result[m][key] = FirstByArrival(Group(m), key)

\* C2 amended: every output field is the value of the first record of the
\* merged group that has a non-null value, the group being read identity by
\* identity (identities in order of first occurrence, the records of one
\* identity in arrival order); it is null only if null in the whole group.
C2_FirstNonNullByIdentity ==
    Done => \A m \in DOMAIN result :
                /\ DOMAIN result[m] = Fields
                /\ \A key \in Fields :
                      result[m][key] = FirstByIdentity(Group(m), key)

\* C2 witness: a later record of the survivor's identity supplied a field
\* although a record of a fuzzy-merged identity, arrived earlier, had one.
C2_Witness ==
    /\ Done
    /\ \E m \in DOMAIN result : \E k, l \in Group(m) :
          /\ k < l
          /\ releases[l]["id"] = result[m]["id"]
          /\ releases[k]["id"] # result[m]["id"]
          /\ ~IsNone(releases[k]["batch"])
          /\ result[m]["batch"] = releases[l]["batch"]
          /\ result[m]["batch"] # releases[k]["batch"]

\* C3: deduplicating the output again returns it unchanged.
C3_Idempotent ==
    Done => /\ result = deduplicate_releases(releases, fuzz)
            /\ deduplicate_releases(result, fuzz) = result

\* C3 witness: the first pass merged a pair by name and returned two records.
C3_Witness ==
    /\ Done /\ fuzz.available
    /\ Len(result) >= 2
    /\ Len(result) < Len(deduped)

\* C4: a compared pair is merged, and its right record removed, exactly when
\* its score is 85 or more; every pair of survivors was compared and scored
\* 84 or less.
C4_Threshold ==
    /\ \A p \in compared :
          (NameScore(p[1], p[2]) >= 85) <=>
              (MergedInto(p[1], p[2]) /\ p[2] \in skip_indices)
    /\ (Done /\ fuzz.available) =>
          /\ Len(result) = Len(deduped) - Cardinality(skip_indices)
          /\ \A a, b \in DOMAIN deduped :
                (a < b /\ a \notin skip_indices /\ b \notin skip_indices) =>
                    /\ <<a, b>> \in compared
                    /\ NameScore(a, b) <= 84
                    /\ deduped[a]["id"] # deduped[b]["id"]
                    /\ \E l, m \in DOMAIN result :
                          l < m /\ Head(fgrp[l]) = a /\ Head(fgrp[m]) = b

\* C4 witness: one pair scoring exactly 85 was merged and one scoring exactly
\* 84 was not.
C4_Witness ==
    /\ Done
    /\ \E p, q \in compared :
          /\ NameScore(p[1], p[2]) = 85 /\ p[2] \in skip_indices
          /\ NameScore(q[1], q[2]) = 84 /\ q[2] \notin skip_indices

\* C5: the output records stand in the order in which their identities first
\* occur in the input.
C5_OrderStable ==
    Done => \A l, m \in DOMAIN result :
                l < m => FirstOcc(result[l]["id"]) < FirstOcc(result[m]["id"])

\* C5 witness: two output records, the first of which absorbed a record that
\* arrived after the second.
C5_Witness ==
    /\ Done /\ Len(result) >= 2
    /\ SetMax(Group(1)) > SetMin(Group(2))

\* C6: an output record has the id and the product name of the first-seen
\* input record of its group.
C6_FirstSeenIdentity ==
    Done => \A m \in DOMAIN result :
                /\ result[m]["id"] = releases[SetMin(Group(m))]["id"]
                /\ result[m]["product_name"] =
                       releases[SetMin(Group(m))]["product_name"]

\* C6 witness: the group holds a record of the same identity under another
\* name and a record of another identity.
C6_Witness ==
    /\ Done
    /\ \E m \in DOMAIN result : \E k, l \in Group(m) :
          /\ releases[k]["id"] = result[m]["id"]
          /\ releases[k]["product_name"] # result[m]["product_name"]
          /\ releases[l]["id"] # result[m]["id"]

\* C7: a consumed record is never an operand of a later comparison, and a
\* later record that matches only a consumed record stays a record of its own.
C7_NotTransitive ==
    /\ \A p \in compared :
          /\ p[1] \notin skip_indices
          /\ p[2] \in skip_indices => p[1] <= Owner(p[2])
    /\ (Done /\ fuzz.available) =>
          \A b \in skip_indices : \A k \in DOMAIN deduped :
              (/\ k > b
               /\ NameScore(b, k) >= 85
               /\ \A s \in 1..(k - 1) : s \notin skip_indices => NameScore(s, k) < 85)
              => /\ k \notin skip_indices
                 /\ <<b, k>> \notin compared
                 /\ \E m \in DOMAIN result :
                       fgrp[m] = <<k>> /\ result[m] = deduped[k]

\* C7 witness: j was consumed by i, k scores 85 against j and 84 against i,
\* and k is in the output.
C7_Witness ==
    /\ Done
    /\ \E b \in skip_indices : \E k \in DOMAIN deduped :
          /\ k > b /\ k \notin skip_indices
          /\ NameScore(b, k) >= 85
          /\ NameScore(Owner(b), k) < 85

\* arrival index of each identity's first record, and the m-th of them
FirstIdx == {k \in DOMAIN releases :
                \A l \in 1..(k - 1) : releases[l]["id"] # releases[k]["id"]}
NthFirst(m) == CHOOSE k \in FirstIdx : Cardinality({x \in FirstIdx : x <= k}) = m
SameId(k) == {x \in DOMAIN releases : releases[x]["id"] = releases[k]["id"]}

\* C8: without the similarity capability the call does not raise and returns
\* one record per identity, in first-occurrence order, merged by identity only.
C8_FallbackIsPhase1 ==
    /\ pc # "raised"
    /\ (Done /\ releases # <<>> /\ ~fuzz.available) =>
          /\ Len(result) = Cardinality(FirstIdx)
          /\ \A m \in DOMAIN result :
                result[m] = [key \in Fields |->
                                FirstByArrival(SameId(NthFirst(m)), key)]

\* C8 witness: the fallback returned fewer records than it was given, and
\* more than one.
C8_Witness ==
    /\ Done /\ releases # <<>> /\ ~fuzz.available
    /\ Len(result) >= 2
    /\ Len(result) < Len(releases)

\* the canonicalized name as the specification words it
ClaimCanon(s) ==
    SelectSeq(lower(s), LAMBDA c : c \in Range(LowerLetters) \cup Digits)

IsRecord(out) == out \notin {None, Raise}

\* the release year of a raw record
RawYear(raw) == GetDefault(raw, "release_year", IntV(2026))

\* C9: two raw records with equal canonicalized names and equal release years
\* get the same identity, whatever else they hold.
C9_IdentityDeterministic ==
    (/\ npc = "done"
     /\ IsRecord(outs[1]) /\ IsRecord(outs[2])
     /\ ClaimCanon(RawName(raws[1]).v) = ClaimCanon(RawName(raws[2]).v)
     /\ RawYear(raws[1]) = RawYear(raws[2]))
    => outs[1]["id"] = outs[2]["id"]

\* C9 witness: the names differ in case and punctuation and only one record
\* has a proof.
C9_Witness ==
    /\ npc = "done"
    /\ IsRecord(outs[1]) /\ IsRecord(outs[2])
    /\ RawName(raws[1]) # RawName(raws[2])
    /\ lower(RawName(raws[1]).v) # lower(RawName(raws[2]).v)
    /\ ClaimCanon(RawName(raws[1]).v) = ClaimCanon(RawName(raws[2]).v)
    /\ RawYear(raws[1]) = RawYear(raws[2])
    /\ outs[1]["proof"] # outs[2]["proof"]

\* C10: the identity is the digest of the canonicalized name joined to the
\* release_year of the same record, so equal names with different release
\* years get different identities.
C10_IdentityUsesOwnYear ==
    npc = "done" =>
        /\ \A k \in {1, 2} :
              IsRecord(outs[k]) =>
                  outs[k]["id"] =
                      sha256_hex16(ClaimCanon(outs[k]["product_name"].v) \o <<"-">>
                                   \o format(outs[k]["release_year"]))
        /\ (/\ IsRecord(outs[1]) /\ IsRecord(outs[2])
            /\ outs[1]["product_name"] = outs[2]["product_name"]
            /\ outs[1]["release_year"] # outs[2]["release_year"])
           => outs[1]["id"] # outs[2]["id"]

\* an alias value trimmed of surrounding whitespace; an absent alias is empty
Trimmed(x) == IF x.tag = "str" THEN strip(x.v) ELSE <<>>

\* the first alias, product_name then name, that is non-empty after trimming
FirstNonEmptyAlias(raw) ==
    IF Trimmed(Get(raw, "product_name")) # <<>>
    THEN Trimmed(Get(raw, "product_name"))
    ELSE Trimmed(Get(raw, "name"))

\* C11: normalize_release returns null exactly when neither name alias is
\* non-empty after trimming, and otherwise names the record by the first
\* alias that is non-empty after trimming.
C11_NameFromFirstNonEmptyAlias ==
    npc = "done" =>
        \A k \in {1, 2} :
            /\ outs[k] = None <=> FirstNonEmptyAlias(raws[k]) = <<>>
            /\ IsRecord(outs[k]) =>
                   outs[k]["product_name"] = StrV(FirstNonEmptyAlias(raws[k]))

\* the type tags a record may carry
TypeTags ==
    {StrV(<<"b","o","u","r","b","o","n">>), StrV(<<"r","y","e">>),
     StrV(<<"w","h","e","a","t">>), StrV(<<"t","e","n","n","e","s","s","e","e">>),
     StrV(<<"s","i","n","g","l","e","_","m","a","l","t">>),
     StrV(<<"s","c","o","t","c","h">>), StrV(<<"j","a","p","a","n","e","s","e">>),
     StrV(<<"b","l","e","n","d">>)}

\* the words a type can be recognised by
TypeWords ==
    {TYPE_MAP[k][1] : k \in DOMAIN TYPE_MAP}
    \cup {<<"r","y","e">>, <<"w","h","e","a","t">>, <<"s","c","o","t","c","h">>,
          <<"h","i","g","h","l","a","n","d">>, <<"s","p","e","y","s","i","d","e">>,
          <<"i","s","l","a","y">>}

NothingMatches(text) == \A w \in TypeWords : ~Contains(lower(text), w)

TypeTextGiven(raw) == Truthy(Get(raw, "type"))

\* the parts of C19 that do not depend on where the type text comes from
TagFlagsBottle(raw, out) ==
    /\ out["type"] \in TypeTags
    /\ out["is_limited"] \in {IntV(0), IntV(1)}
    /\ out["is_new"] \in {IntV(0), IntV(1)}
    /\ out["bottle_size_ml"] # None
    /\ Get(raw, "bottle_size_ml") = None => out["bottle_size_ml"] = IntV(750)

\* C19 as stated: every record has a type from the closed set, bourbon when
\* nothing matches or no type text is given, flags that are 0 or 1 and a
\* bottle size that is never null, 750 when the raw record gives none.
C19_TypeFlagsBottleAsStated ==
    npc = "done" =>
        \A k \in {1, 2} :
            IsRecord(outs[k]) =>
                /\ TagFlagsBottle(raws[k], outs[k])
                /\ (\/ ~TypeTextGiven(raws[k])
                    \/ NothingMatches(Get(raws[k], "type").v))
                   => outs[k]["type"] = bourbon

\* C19 amended: as stated, except that a record without a type text is
\* classified by its product name, so it is bourbon when nothing matches in
\* the type text or, without one, in the product name.
C19_TypeFlagsBottle ==
    npc = "done" =>
        \A k \in {1, 2} :
            IsRecord(outs[k]) =>
                /\ TagFlagsBottle(raws[k], outs[k])
                /\ NothingMatches(IF TypeTextGiven(raws[k])
                                  THEN Get(raws[k], "type").v
                                  ELSE outs[k]["product_name"].v)
                   => outs[k]["type"] = bourbon

\* C19 witness: one record has no type text, a name with no type word and a
\* defaulted bottle size; the other has a type text no word matches, its own
\* bottle size and a flag given as a string.
C19_Witness ==
    /\ npc = "done"
    /\ IsRecord(outs[1]) /\ IsRecord(outs[2])
    /\ ~TypeTextGiven(raws[1]) /\ outs[1]["type"] = bourbon
    /\ Get(raws[1], "bottle_size_ml") = None
    /\ outs[1]["bottle_size_ml"] = IntV(750)
    /\ TypeTextGiven(raws[2]) /\ outs[2]["type"] = bourbon
    /\ "is_limited" \in DOMAIN raws[2] /\ outs[2]["is_limited"] = IntV(1)

\* the call of parser f has returned (or raised)
Returned(f) == ppc = "returned" /\ fn = f

\* r is a typed value or a null result of parser f
TypedOrNull(f, r) ==
    CASE f = "parse_proof" ->
             /\ r # Raise
             /\ r.proof.tag \in {"None", "float"}
             /\ r.abv.tag \in {"None", "float"}
      [] f = "parse_age" -> r.tag \in {"None", "int"}
      [] f = "parse_price" -> r.tag \in {"None", "float"}
      [] f = "normalize_month" -> r.tag \in {"None", "str"}
      [] f = "classify_type" -> r.tag = "str"

\* C13: no field parser raises: for null, empty and every text, parse_proof,
\* parse_age, parse_price and normalize_month return a typed value or a null
\* result, also when the numeric token is not a well-formed number.
C13_NoParserRaises == ppc = "returned" => TypedOrNull(fn, ret)

Max(a, b) == IF a >= b THEN a ELSE b

\* the text has a year range 'A-B years'
HasRange(s) == \E p \in 1..Len(s) : RangeAt(s, p)

\* the endpoints <<A, B>> of the first year range of the text
FirstRange(s) ==
    LET p == SetMin({k \in 1..Len(s) : RangeAt(s, k)})
        q == RangeGroup2(s, p)
    IN <<int(SubSeq(s, p, RunEnd(s, p, Digits))),
         int(SubSeq(s, q, RunEnd(s, q, Digits)))>>

\* C14: for a text with an explicit year range 'A-B years' parse_age returns
\* max(A, B), whichever endpoint is written first.
C14_RangeGivesMaximum ==
    (Returned("parse_age") /\ arg.tag = "str" /\ HasRange(arg.v))
    => ret = IntV(Max(FirstRange(arg.v)[1], FirstRange(arg.v)[2]))

\* the first number of the text that 'proof' follows, <<>> if there is none
NumberBeforeProof(s) ==
    LET P == {p \in 1..Len(s) : ProofAt(s, p)}
    IN IF P = {} THEN <<>> ELSE SubSeq(s, SetMin(P), RunEnd(s, SetMin(P), NumDot))

Abs(x) == IF x >= 0 THEN x ELSE 0 - x

\* C15: a number followed by 'proof' is the proof, also when it is <= 100;
\* otherwise a number n is the proof when n > 100 and the ABV when n <= 100,
\* 100 being an ABV; the result is always a pair with proof = 2 x ABV up to
\* one-decimal rounding, or (null, null).
C15_ProofAbvPair ==
    (Returned("parse_proof") /\ arg.tag = "str") =>
        LET s == strip(arg.v)
            g == NumberBeforeProof(s)
            h == FirstNumber(s)
        IN /\ ret # Raise
           /\ ret.proof = None <=> ret.abv = None
           /\ ret.proof # None => Abs(ret.proof.v - 2 * ret.abv.v) <= 100
           /\ (g # <<>> /\ FloatOk(g)) => ret.proof = FloatV(float(g))
           /\ (g = <<>> /\ h # <<>> /\ FloatOk(h) /\ float(h) > 100 * 1000)
              => ret.proof = FloatV(float(h))
           /\ (g = <<>> /\ h # <<>> /\ FloatOk(h) /\ float(h) <= 100 * 1000)
              => ret.abv = FloatV(float(h))
           /\ (g = <<>> /\ h = <<>>) => ret = [proof |-> None, abv |-> None]

HasPlaceholder(s) == \E t \in Placeholders : Contains(s, t)

\* the number behind the first '$' of the text, commas removed; <<>> if the
\* text has no '$' or no digit stands behind the first one
NumberAfterDollar(s) ==
    LET D == {p \in 1..Len(s) : s[p] = "$"}
        p == SetMin(D) + 1
    IN IF D # {} /\ p <= Len(s) /\ IsDigit(s[p])
       THEN NoCommas(SubSeq(s, p, RunEnd(s, p, NumDot \cup {","})))
       ELSE <<>>

\* C16: parse_price returns null when the text has a placeholder token, even
\* next to a dollar amount; otherwise the number behind the first '$', commas
\* removed, and not an earlier number without a '$'; null when the text has
\* no numeric token.
C16_PriceAfterDollar ==
    (Returned("parse_price") /\ arg.tag = "str") =>
        LET s == strip(arg.v)
            g == NumberAfterDollar(s)
        IN /\ HasPlaceholder(s) => ret = None
           /\ (~HasPlaceholder(s) /\ g # <<>> /\ FloatOk(g)) => ret = FloatV(float(g))
           /\ (\A k \in DOMAIN s : ~IsDigit(s[k])) => ret = None

\* what each rule of normalize_month yields for text s, as a set of labels
\* (a) a month name followed by the year, anywhere
RuleA(s, y) == {MonthLabel(k, y) : k \in {k \in DOMAIN MONTHS : MonthYearIn(s, k, y)}}

\* (b) a month name or its first three letters at the start
RuleB(s, y) ==
    {MonthLabel(k, y) :
         k \in {k \in DOMAIN MONTHS : LitAt(s, 1, SubSeq(lower(MONTHS[k]), 1, 3))}}

\* (c) the numeric month/year token, with month 1..12
RuleC(s, y) ==
    LET C == {p \in 1..Len(s) : NumericAt(s, p)}
        m == int(SubSeq(s, SetMin(C), SetMin(C) + NumericG1(s, SetMin(C)) - 1))
    IN IF C # {} /\ m \in 1..12 THEN {MonthLabel(m, y)} ELSE {}

\* (d) the quarter token
RuleD(s, y) == {QuarterMonth(s, y)} \ {None}

\* C17: normalize_month returns the result of the first of its four rules, in
\* the order (a), (b), (c), (d), that matches; a later rule is used only when
\* no earlier one matches, and null is returned when none matches.
C17_FirstMatchingRule ==
    (Returned("normalize_month") /\ arg.tag = "str") =>
        LET s == strip(arg.v)
        IN \/ ret \in RuleA(s, year_arg)
           \/ /\ RuleA(s, year_arg) = {}
              /\ \/ ret \in RuleB(s, year_arg)
                 \/ /\ RuleB(s, year_arg) = {}
                    /\ \/ ret \in RuleC(s, year_arg)
                       \/ /\ RuleC(s, year_arg) = {}
                          /\ \/ ret \in RuleD(s, year_arg)
                             \/ RuleD(s, year_arg) = {} /\ ret = None

\* C17 witness: rules (a) and (b) both match, with different months, and the
\* month of rule (a) is returned.
C17_Witness ==
    /\ Returned("normalize_month") /\ arg.tag = "str"
    /\ RuleB(strip(arg.v), year_arg) # {}
    /\ ret \notin RuleB(strip(arg.v), year_arg)
    /\ ret \in RuleA(strip(arg.v), year_arg)

\* the first month of each quarter
QuarterFirstMonth ==
    <<<<"J","a","n","u","a","r","y">>, <<"A","p","r","i","l">>,
      <<"J","u","l","y">>, <<"O","c","t","o","b","e","r">>>>

\* the digit of the first quarter token 'Q<n>' of the text, -1 if none
QuarterDigit(s) ==
    LET Q == {p \in 1..Len(s) : QuarterAt(s, p)}
    IN IF Q = {} THEN 0 - 1 ELSE DigitVal(s[SetMin(Q) + 1])

\* no month-name rule and no numeric month/year rule matches
OnlyQuarterLeft(s, y) == RuleB(s, y) = {} /\ RuleC(s, y) = {} /\ RuleA(s, y) = {}

\* C18: when no month-name or numeric rule matches, a quarter token 'Q<n>'
\* gives the first month of quarter n in the target year for n in 1..4 and
\* null for any other digit.
C18_QuarterFirstMonth ==
    (/\ Returned("normalize_month") /\ arg.tag = "str"
     /\ QuarterDigit(strip(arg.v)) >= 0
     /\ OnlyQuarterLeft(strip(arg.v), year_arg))
    => ret = IF QuarterDigit(strip(arg.v)) \in 1..4
             THEN StrV(QuarterFirstMonth[QuarterDigit(strip(arg.v))] \o <<" ">>
                       \o str_int(year_arg))
             ELSE None

\* C18 witness: 'Q0' next to a numeric token whose month is out of range gave
\* null.
C18_Witness ==
    /\ Returned("normalize_month") /\ arg.tag = "str"
    /\ QuarterDigit(strip(arg.v)) = 0
    /\ \E p \in 1..Len(strip(arg.v)) : NumericAt(strip(arg.v), p)
    /\ OnlyQuarterLeft(strip(arg.v), year_arg)
    /\ ret = None

\* the raw records of the pools for which normalize_release returns null
DroppedRaws == {r \in ScrapeRaws \cup SeedRaws : normalize_release(r) = {None}}

\* the identities normalize_release gives each raw record of the pools
IdsOf ==
    [r \in ScrapeRaws \cup SeedRaws |->
         {x["id"] : x \in normalize_release(r) \ {None, Raise}}]

\* C12: a raw record for which normalize_release returns null is dropped by
\* every caller: main never keeps it, never hands its result to
\* deduplicate_releases, never upserts it and never gives it a
\* release_sources row; seed skips it without a database write.
C12_NullRecordsDropped ==
    /\ \A k \in DOMAIN all_raw_releases : all_raw_releases[k].raw \notin DroppedRaws
    /\ \A k \in DOMAIN normalized_list : normalized_list[k] # None
    /\ Len(normalized_list) <= Cardinality({k \in DOMAIN scraped : scraped[k] \notin DroppedRaws})
    /\ \A k \in DOMAIN upserted :
           /\ upserted[k] # None
           /\ \E m \in DOMAIN scraped :
                  scraped[m] \notin DroppedRaws /\ upserted[k]["id"] \in IdsOf[scraped[m]]
    /\ \A row \in tbl_sources : row.raw_data \notin DroppedRaws
    /\ script = "seed" =>
           /\ Len(upserted) = Cardinality({k \in DOMAIN scraped : IdsOf[scraped[k]] # {}})
           /\ \A k \in DOMAIN scraped :
                  IdsOf[scraped[k]] # {} =>
                      \E row \in tbl_sources : row.release_id \in IdsOf[scraped[k]]

\* C12 witness: a live run of main is over; a scraper returned a record
\* without a usable name next to records that were stored.
C12_Witness ==
    /\ script = "scrape" /\ spc = "done" /\ ~dry_run
    /\ \E k \in DOMAIN scraped : scraped[k] \in DroppedRaws
    /\ upserted # <<>>
    /\ tbl_sources # {}

\* the product name under which identity x was compared: that of the first
\* record kept with this identity
FirstNameOf(x) ==
    all_raw_releases[SetMin({k \in DOMAIN all_raw_releases :
                                 all_raw_releases[k].normalized["id"] = x})]
        .normalized["product_name"].v

\* the k-th record kept is in the merge group of the m-th survivor: it has
\* the survivor's identity, or its identity did not survive and the survivor
\* is the first whose name scores at or over the threshold against it
Contributed(k, m) ==
    LET x == all_raw_releases[k].normalized["id"]
    IN \/ x = deduplicated[m]["id"]
       \/ /\ fuzz.available
          /\ \A q \in DOMAIN deduplicated : deduplicated[q]["id"] # x
          /\ m = SetMin({q \in DOMAIN deduplicated :
                            fuzz.token_sort_ratio[lower(deduplicated[q]["product_name"].v),
                                                  lower(FirstNameOf(x))] >= ScoreThreshold})

\* C20: after a live scrape run, every stored survivor has a release_sources
\* row for each distinct source name that contributed a raw record to its
\* merge group, also for sources whose records the fuzzy merge folded in
\* under another identity.
C20_SourcesOfMergeGroup ==
    (script = "scrape" /\ spc = "done" /\ ~dry_run) =>
        \A m \in DOMAIN deduplicated : \A k \in DOMAIN all_raw_releases :
            Contributed(k, m) =>
                /\ deduplicated[m]["id"] \in DOMAIN tbl_releases
                /\ \E row \in tbl_sources :
                       /\ row.release_id = deduplicated[m]["id"]
                       /\ row.source_name = all_raw_releases[k].source_name

-----------------------------------------------------------------------------
(* C21: in a --dry-run execution of scrape.py no database operation is     *)
(* ever performed: there is no connection, and no log_scrape,              *)
(* upsert_release, add_source or commit happens, also when a scraper       *)
(* raises.                                                                 *)

C21_DryRunTouchesNoDatabase ==
    (script = "scrape" /\ dry_run) =>
        /\ conn = "none"
        /\ tbl_logs = <<>>
        /\ upserted = <<>>
        /\ tbl_releases = <<>>
        /\ tbl_sources = {}
        /\ commits = 0

\* a finished dry run in which one scraper raised and another returned records
C21_Witness ==
    /\ script = "scrape" /\ dry_run /\ spc = "done"
    /\ \E a, b \in DOMAIN results : results[a] = "error" /\ results[b] = "success"
    /\ deduplicated # <<>>

-----------------------------------------------------------------------------
(* C22: classify_type returns the tag of the first fragment, in the        *)
(* table's order, that occurs in the lowercased input, not the longest     *)
(* one; the rye, wheat and scotch-region keywords count only when no       *)
(* table fragment occurs, and the default bourbon is returned only when    *)
(* neither the table nor the keywords match.                               *)

\* the lowercased input of the call
TypeInput == IF arg = None THEN <<>> ELSE lower(arg.v)

\* the table entries whose fragment occurs in the input
Occurring == {k \in DOMAIN TYPE_MAP : Contains(TypeInput, TYPE_MAP[k][1])}

ScotchRegions ==
    {<<"s","c","o","t","c","h">>, <<"h","i","g","h","l","a","n","d">>,
     <<"s","p","e","y","s","i","d","e">>, <<"i","s","l","a","y">>}

\* the tag the keyword fallbacks give, None when no keyword occurs
KeywordTag ==
    IF Contains(TypeInput, <<"r","y","e">>) THEN StrV(<<"r","y","e">>)
    ELSE IF Contains(TypeInput, <<"w","h","e","a","t">>) THEN StrV(<<"w","h","e","a","t">>)
    ELSE IF \E w \in ScotchRegions : Contains(TypeInput, w) THEN StrV(<<"s","c","o","t","c","h">>)
    ELSE None

C22_FirstFragmentInTableOrder ==
    (ppc = "returned" /\ fn = "classify_type") =>
        /\ \A k \in Occurring :
               (\A h \in Occurring : k <= h) => ret = StrV(TYPE_MAP[k][2])
        /\ (Occurring = {} /\ KeywordTag # None) => ret = KeywordTag
        /\ (Occurring = {} /\ KeywordTag = None) => ret = bourbon

\* a text in which the first fragment of the table is neither the longest
\* fragment that occurs nor the one that comes first in the text
C22_Witness ==
    /\ ppc = "returned" /\ fn = "classify_type"
    /\ \E k, g \in Occurring :
           /\ \A h \in Occurring : k <= h
           /\ Len(TYPE_MAP[g][1]) > Len(TYPE_MAP[k][1])
           /\ TYPE_MAP[g][2] # TYPE_MAP[k][2]
           /\ \E p \in 1..Len(TypeInput) :
                  /\ LitAt(TypeInput, p, TYPE_MAP[g][1])
                  /\ \A q \in 1..p : ~LitAt(TypeInput, q, TYPE_MAP[k][1])
    /\ ret # bourbon

-----------------------------------------------------------------------------
(* C23: a failure of one scraper is isolated.  An exception raised by a    *)
(* scraper, or while its records are normalized, is caught and recorded    *)
(* as exactly one 'error' scrape-log entry for that source in live mode;   *)
(* the records of the other scrapers are kept, normalized, deduplicated    *)
(* and stored; each scraper run produces exactly one scrape-log entry,     *)
(* 'success' or 'error'.                                                   *)

\* the records the scraper of this step returned
NewlyScraped == SubSeq(scraped', Len(scraped) + 1, Len(scraped'))

\* the entries of the log for source name
LogEntriesOf(log, name) == {k \in DOMAIN log : log[k].source_name = StrV(name)}

\* one scraper run: a step of the scraper loop
ScraperRun == script = "scrape" /\ todo # <<>> /\ todo' # todo

\* what one scraper run does, whether it fails or not
RunIsolated ==
    LET name == Head(todo)
        added == SubSeq(all_raw_releases', Len(all_raw_releases) + 1,
                        Len(all_raw_releases'))
    IN /\ todo' = Tail(todo) /\ spc' = spc
       /\ name \notin DOMAIN results
       /\ DOMAIN results' = DOMAIN results \cup {name}
       /\ \A other \in DOMAIN results : results'[other] = results[other]
       /\ results'[name] \in {"success", "error"}
       \* the records collected so far stay
       /\ SubSeq(all_raw_releases', 1, Len(all_raw_releases)) = all_raw_releases
       /\ (\E k \in DOMAIN NewlyScraped : Raise \in normalize_release(NewlyScraped[k]))
              => results'[name] = "error"
       /\ results'[name] = "error" => added = <<>>
       /\ results'[name] = "success" =>
              /\ Len(added) = Cardinality({k \in DOMAIN NewlyScraped :
                                              None \notin normalize_release(NewlyScraped[k])})
              /\ \A k \in DOMAIN added :
                     added[k].normalized \in normalize_release(added[k].raw)
       \* exactly one log entry in live mode, none in a dry run
       /\ conn = "open" =>
              /\ Len(tbl_logs') = Len(tbl_logs) + 1
              /\ SubSeq(tbl_logs', 1, Len(tbl_logs)) = tbl_logs
              /\ tbl_logs'[Len(tbl_logs')] =
                     [source_name |-> StrV(name), status |-> results'[name],
                      count |-> Len(added)]
       /\ conn # "open" => tbl_logs' = tbl_logs
       \* nothing that was stored is touched
       /\ UNCHANGED <<tbl_releases, tbl_sources, conn>>

\* after the scraper loop of a live run: one log entry per scraper that
\* ran, and the records collected are deduplicated and stored
RunsLoggedAndStored ==
    /\ (script = "scrape" /\ conn = "open") =>
           /\ \A name \in DOMAIN results :
                  Cardinality(LogEntriesOf(tbl_logs, name)) = 1
           /\ Len(tbl_logs) = Cardinality(DOMAIN results)
    /\ (script = "scrape" /\ ~dry_run /\ spc \in {"summary", "done"}) =>
           /\ normalized_list =
                  [k \in DOMAIN all_raw_releases |-> all_raw_releases[k].normalized]
           /\ deduplicated = deduplicate_releases(normalized_list, fuzz)
           /\ (normalized_list # <<>>) => deduplicated # <<>>
           /\ \A k \in DOMAIN deduplicated :
                  deduplicated[k]["id"] \in DOMAIN tbl_releases

C23_ScraperFailureIsolated ==
    [](RunsLoggedAndStored) /\ [][ScraperRun => RunIsolated]_vars

\* a finished live run in which the first scraper failed, a later one
\* succeeded and its records were stored
C23_Witness ==
    /\ script = "scrape" /\ ~dry_run /\ spc = "done"
    /\ Len(tbl_logs) >= 2
    /\ tbl_logs[1].status = "error"
    /\ \E k \in DOMAIN tbl_logs : tbl_logs[k].status = "success" /\ tbl_logs[k].count > 0
    /\ tbl_releases # <<>>

-----------------------------------------------------------------------------
(* C24: after any sequence of upsert_release calls for one identity, a     *)
(* stored column never changes from a value to null: an incoming null      *)
(* leaves the stored value, an incoming value replaces it, so each column  *)
(* but release_year holds the most recent non-null value supplied, and     *)
(* release_year keeps the value of the first insert.                       *)

\* the upsert_release calls made so far for identity id, oldest first
CallsFor(id) == {k \in DOMAIN upserted : upserted[k]["id"] = id}

\* the most recent non-null value supplied for column f of identity id
LastSupplied(id, f) ==
    LET supplied == {k \in CallsFor(id) : upserted[k][f] # None}
    IN IF supplied = {} THEN None ELSE upserted[SetMax(supplied)][f]

StoredIsLastSupplied ==
    \A id \in DOMAIN tbl_releases :
        /\ CallsFor(id) # {}
        /\ \A f \in Fields \ {"id"} :
               tbl_releases[id][f] =
                   IF f = "release_year"
                   THEN upserted[SetMin(CallsFor(id))][f]
                   ELSE LastSupplied(id, f)

NeverBackToNull ==
    \A id \in DOMAIN tbl_releases :
        /\ id \in DOMAIN tbl_releases'
        /\ \A f \in Fields :
               tbl_releases[id][f] # None => tbl_releases'[id][f] # None

C24_UpsertNeverNulls == [](StoredIsLastSupplied) /\ [][NeverBackToNull]_vars

\* three calls for one identity: the last call supplies null for a column
\* that keeps the value of an earlier call, a name that replaces the
\* stored one, and a release year that is not stored
C24_Witness ==
    \E id \in DOMAIN tbl_releases :
        /\ Cardinality(CallsFor(id)) >= 2
        /\ LET last == upserted[SetMax(CallsFor(id))]
               first == upserted[SetMin(CallsFor(id))]
           IN /\ \E f \in Fields : last[f] = None /\ tbl_releases[id][f] # None
              /\ last["product_name"] # first["product_name"]
              /\ tbl_releases[id]["product_name"] = last["product_name"]
              /\ last["release_year"] # first["release_year"]
              /\ tbl_releases[id]["release_year"] = first["release_year"]

-----------------------------------------------------------------------------
(* C25: the rate limiter admits at most 60 requests per client IP in any   *)
(* 60-second window.  For requests with non-decreasing timestamps, the     *)
(* admitted requests of one IP that lie within 60 seconds of each other    *)
(* are never more than 60; a request beyond that is answered 429 and is    *)
(* not recorded; the requests of other IPs do not affect the count.  Two   *)
(* timestamps are in one 60-second window when they are less than 60       *)
(* seconds apart.                                                          *)

\* the requests of ip admitted less than RATE_LIMIT_WINDOW before time t
AdmittedInWindow(ip, t) ==
    Cardinality({k \in DOMAIN admitted[ip] : t - admitted[ip][k] < RATE_LIMIT_WINDOW})

\* no window holds more than RATE_LIMIT_MAX admitted requests of one client:
\* the admitted requests are in the order of their timestamps, and a request
\* admitted RATE_LIMIT_MAX requests after another is not in one window with it
WindowNeverOverfull ==
    \A ip \in IPs : \A a \in DOMAIN admitted[ip] :
        /\ a > 1 => admitted[ip][a - 1] <= admitted[ip][a]
        /\ a > RATE_LIMIT_MAX =>
               admitted[ip][a] - admitted[ip][a - RATE_LIMIT_MAX] >= RATE_LIMIT_WINDOW

\* one request: it is answered 429 exactly when the client's own window is
\* full, a request answered 429 is not recorded, an admitted one is, and
\* what is kept for the other clients stays as it is
RequestCounted ==
    sent' # sent =>
        LET ip == client_ip'
        IN /\ sent'[ip] = sent[ip] + 1
           /\ response' = "429" <=> AdmittedInWindow(ip, now) >= RATE_LIMIT_MAX
           /\ response' # "429" <=> response' = "routed"
           /\ response' = "429" =>
                  /\ admitted' = admitted
                  /\ rate_store'[ip] = Recent(rate_store[ip], now)
                  /\ Len(rate_store'[ip]) <= Len(rate_store[ip])
           /\ response' = "routed" =>
                  /\ admitted'[ip] = Append(admitted[ip], now)
                  /\ rate_store'[ip] = Append(Recent(rate_store[ip], now), now)
           /\ \A other \in IPs \ {ip} :
                  /\ rate_store'[other] = rate_store[other]
                  /\ admitted'[other] = admitted[other]
                  /\ sent'[other] = sent[other]

C25_AtMostMaxPerWindow == [](WindowNeverOverfull) /\ [][RequestCounted]_vars

\* the first client has 60 requests admitted in one window, at two
\* different instants, and its next request was answered 429, while the
\* other client was admitted in the same window
C25_Witness ==
    /\ response = "429" /\ client_ip = "10.0.0.1"
    /\ Len(admitted["10.0.0.1"]) = RATE_LIMIT_MAX
    /\ \E a, b \in DOMAIN admitted["10.0.0.1"] :
           admitted["10.0.0.1"][a] < admitted["10.0.0.1"][b]
    /\ now - admitted["10.0.0.1"][1] < RATE_LIMIT_WINDOW
    /\ admitted["10.0.0.2"] # <<>>

-----------------------------------------------------------------------------
(* C26: with the similarity capability present, the output of              *)
(* deduplicate_releases is pairwise separated: no two output records have  *)
(* the same identity, and the product names of any two output records      *)
(* score below 85 (the score being symmetric and deterministic).           *)

\* the scorer's answer for the lowercased names of two output records
OutputScore(a, b) ==
    fuzz.token_sort_ratio[lower(result[a]["product_name"].v),
                          lower(result[b]["product_name"].v)]

C26_PairwiseSeparated ==
    (Done /\ fuzz.available) =>
        \A a, b \in DOMAIN result :
            a # b =>
                /\ result[a]["id"] # result[b]["id"]
                /\ OutputScore(a, b) < ScoreThreshold

\* two records are left after a merge has taken place
C26_Witness ==
    /\ Done /\ fuzz.available
    /\ Len(result) >= 2
    /\ Len(result) < Len(releases)

-----------------------------------------------------------------------------
(* C27: deduplicate_releases never modifies its input: after the call the  *)
(* input list has the same length and order and every input record the     *)
(* same field values as before, whichever merges were performed; all       *)
(* filling is done on copies.                                              *)

\* the function has been called and has not returned
InCall == pc \in {"phase1", "outer", "inner"}

-----------------------------------------------------------------------------
(* C28: the merge groups of deduplicate_releases partition the input:      *)
(* every input record is in the merge group of exactly one output record,  *)
(* no record is merged into two survivors or consumed twice, the output    *)
(* is never longer than the input, and every non-null field value of an    *)
(* output record is the value of that field in some input record of its    *)
(* group.                                                                  *)

\* how often x occurs in the sequences of the list gs
RECURSIVE Occurrences(_, _)
Occurrences(gs, x) ==
    IF gs = <<>> THEN 0
    ELSE Cardinality({p \in DOMAIN Head(gs) : Head(gs)[p] = x})
         + Occurrences(Tail(gs), x)

C28_GroupsPartitionInput ==
    Done =>
        /\ \A k \in DOMAIN releases :
               Cardinality({m \in DOMAIN result : k \in Group(m)}) = 1
        /\ \A k \in DOMAIN releases : Occurrences(grp1, k) = 1
        /\ \A p \in DOMAIN deduped : Occurrences(fgrp, p) = 1
        /\ Len(result) <= Len(releases)
        /\ \A m \in DOMAIN result : \A key \in DOMAIN result[m] :
               ~IsNone(result[m][key]) =>
                   \E k \in Group(m) :
                       key \in DOMAIN releases[k] /\ releases[k][key] = result[m][key]

\* an output record whose group has a fuzzy-merged member and a field that
\* its first record did not have
C28_Witness ==
    /\ Done /\ fuzz.available
    /\ \E m \in DOMAIN result :
           /\ Len(fgrp[m]) >= 2
           /\ \E key \in DOMAIN result[m] :
                  /\ ~IsNone(result[m][key])
                  /\ IsNone(releases[SetMin(Group(m))][key])

-----------------------------------------------------------------------------
(* C29: normalize_release gives type, bottle_size_ml, release_year,        *)
(* is_limited and is_new non-null defaults, so in every merge of records   *)
(* it produced these five fields of the surviving record are those of the  *)
(* first-seen record: a later duplicate's is_limited = 1, explicit type    *)
(* or bottle size never replaces the first-seen record's 0, 'bourbon' or   *)
(* 750.                                                                    *)

DefaultedFields == {"type", "bottle_size_ml", "release_year", "is_limited", "is_new"}

\* the first-seen record of the group of the m-th output record
FirstSeen(m) == releases[SetMin(Group(m))]

C29_DefaultedFieldsFirstSeen ==
    /\ \A k \in DOMAIN releases : \A f \in DefaultedFields : ~IsNone(releases[k][f])
    /\ Done =>
           \A m \in DOMAIN result : \A f \in DefaultedFields :
               result[m][f] = FirstSeen(m)[f]

-----------------------------------------------------------------------------
(* C30: for every record normalize_release returns with a non-null         *)
(* release_month, the year in the release_month label is the record's      *)
(* release_year, and the month name is one of the twelve canonical month   *)
(* names.                                                                  *)

\* the label is a canonical month name, a space and the year y
IsLabelOf(label, y) ==
    /\ label.tag = "str"
    /\ \E k \in DOMAIN MONTHS : label.v = MONTHS[k] \o <<" ">> \o str_int(y)

C30_MonthLabelYearIsReleaseYear ==
    npc = "done" =>
        \A k \in {1, 2} :
            (IsRecord(outs[k]) /\ ~IsNone(outs[k]["release_month"])) =>
                /\ outs[k]["release_year"].tag = "int"
                /\ IsLabelOf(outs[k]["release_month"], outs[k]["release_year"].v)

====
